---------------------------- MODULE Spec2Model ----------------------------
(***************************************************************************)
(* A model of the consensus-proof crate: the script interpreter            *)
(* (src/src/script.rs), the transaction checks (src/src/transaction.rs),   *)
(* the subsidy schedule (src/src/economic.rs), block connection            *)
(* (src/src/block.rs) and proof of work (src/src/pow.rs).                  *)
(*                                                                         *)
(* Byte strings (Vec<u8>) are sequences of numbers 0..255; a stack         *)
(* (Vec<ByteString>) is a sequence whose LAST element is the top.          *)
(* Result<T> is modelled by a tag: an Err(ConsensusError::K(msg)) is the   *)
(* error kind K carried in the result record.                              *)
(***************************************************************************)
EXTENDS Integers, Sequences, FiniteSets, TLC

VARIABLES
    \* ---- eval_script, one call in progress (src/src/script.rs:20-43)
    script,      \* the script argument
    stack,       \* the caller-supplied stack (&mut Vec<ByteString>)
    op_count,    \* the loop's counter; also the number of opcodes consumed
    s_pc,        \* "idle" | "loop" | "done": position inside eval_script
    s_result,    \* "none" | "true" | "false" | "ScriptExecution"
    s_failed,    \* TRUE once execute_opcode has returned Ok(false)
    \* ---- connect_block, one call in progress (src/src/block.rs:23-97)
    block,       \* [header, transactions]; a transaction is held as its id
    height,      \* the height argument
    utxo_set,    \* the (mut) utxo_set parameter / the set handed back
    utxo_in,     \* the set as it was passed in by the caller
    pc,          \* "idle" | "header" | "loop" | "coinbase" | "apply" | "done"
                 \* | "disconnected" (after disconnect_block)
    idx,         \* index (1-based) of the transaction the current loop is at
    total_fees,  \* the accumulator of step 2
    result,      \* "none" | "Valid" | "Invalid" | an error kind
    reason,      \* the Invalid reason string
    calls,       \* number of connect_block calls returned so far
    \* ---- one call of a function without state of its own
    fn,          \* "none" | the name of the function called
    arg,         \* its arguments
    out          \* what it returned

script_vars == <<script, stack, op_count, s_pc, s_result, s_failed>>
block_vars  == <<block, height, utxo_set, utxo_in, pc, idx, total_fees,
                 result, reason, calls>>
call_vars == <<fn, arg, out>>
vars == <<script, stack, op_count, s_pc, s_result, s_failed,
          block, height, utxo_set, utxo_in, pc, idx, total_fees,
          result, reason, calls, fn, arg, out>>

(***************************************************************************)
(* Wide integers. TLC's integers are 32 bits wide, while the program's     *)
(* amounts (i64) and indices (u64) are not: a wide value <<hi, lo>> stands *)
(* for hi * 10^9 + lo with 0 <= lo < 10^9 (hi < 0 for a negative value).   *)
(* The arithmetic is exact; the model's values stay far below 2^63, where  *)
(* the program's arithmetic would overflow.                                *)
(***************************************************************************)
WideBase == 1000000000

Wide(hi, lo) == <<hi, lo>>

\* a + b
WideAdd(a, b) ==
    LET l == a[2] + b[2] IN <<a[1] + b[1] + (l \div WideBase), l % WideBase>>

\* a - b
WideSub(a, b) ==
    LET l == a[2] - b[2]
    IN  IF l >= 0 THEN <<a[1] - b[1], l>> ELSE <<a[1] - b[1] - 1, l + WideBase>>

\* a < b
WideLt(a, b) == a[1] < b[1] \/ (a[1] = b[1] /\ a[2] < b[2])

\* a > b
WideGt(a, b) == WideLt(b, a)

\* a >> k: k halvings, each rounding down (k \div 2 of them first, then the
\* others)
RECURSIVE WideShr(_, _)
WideShr(a, k) ==
    IF k = 0 THEN a
    ELSE IF k = 1 THEN <<a[1] \div 2, ((a[1] % 2) * WideBase + a[2]) \div 2>>
    ELSE CHOOSE r \in {WideShr(b, k - k \div 2) : b \in {WideShr(a, k \div 2)}} :
           TRUE

WideZero == <<0, 0>>

\* 0xffffffff
U32Max == <<4, 294967295>>

(***************************************************************************)
(* Program constants (src/src/constants.rs).                               *)
(***************************************************************************)
MAX_MONEY == <<2100000, 0>>
MAX_TX_SIZE == 1000000
MAX_INPUTS == 1000
MAX_OUTPUTS == 1000
MAX_STACK_SIZE == 1000
MAX_SCRIPT_OPS == 201
HALVING_INTERVAL == 210000
INITIAL_SUBSIDY == <<5, 0>>

(***************************************************************************)
(* Bounds of the model.                                                    *)
(***************************************************************************)
\* longest block, in transactions, the caller submits
MaxBlockTxs == 2
\* transactions per candidate validated against FundedSet
MaxSpendTxs == 3
\* number of connect_block calls in one behaviour
MaxCalls == 2
\* longest enumerated script (scripts made by repetition are longer)
MaxScriptLen == 2

(***************************************************************************)
(* Sequence helpers (Vec operations).                                      *)
(***************************************************************************)
Pop(s) == SubSeq(s, 1, Len(s) - 1)

\* Vec::remove(i) with a 1-based position
RemoveAt(s, i) == SubSeq(s, 1, i - 1) \o SubSeq(s, i + 1, Len(s))

Repeat(pat, n) == [i \in 1..(n * Len(pat)) |-> pat[((i - 1) % Len(pat)) + 1]]

RECURSIVE SumBytes(_)
SumBytes(s) == IF s = <<>> THEN 0 ELSE s[1] + SumBytes(Tail(s))

\* F applied to the value of v, which is computed once (a `let` of the
\* program: the bound value is not recomputed where it is used)
Bind(v, F(_)) == CHOOSE r \in {F(x) : x \in {v}} : TRUE

\* item is non-empty and its first byte is non-zero
Truthy(item) == item # <<>> /\ item[1] # 0

(***************************************************************************)
(* The digests come from the sha2 and ripemd crates. Their bit-level       *)
(* definition is outside the repository; what the interpreter relies on    *)
(* is a deterministic function of the input of 32 resp. 20 bytes.          *)
(***************************************************************************)
Sha256Digest(item) ==
    [i \in 1..32 |-> (SumBytes(item) * 31 + Len(item) * 7 + i * 13 + 5) % 256]

Ripemd160Digest(item) ==
    [i \in 1..20 |-> (SumBytes(item) * 17 + Len(item) * 3 + i * 11 + 9) % 256]

\* secp256k1: PublicKey::from_slice rejects every slice that is not 33 or 65
\* bytes long; for a well-sized key the verdict is the library's.
verify_signature(pubkey_bytes, signature_bytes) ==
    IF Len(pubkey_bytes) \notin {33, 65}
    THEN FALSE
    ELSE CHOOSE b \in BOOLEAN : TRUE

(***************************************************************************)
(* execute_opcode: Ok(true) / Ok(false) with the stack as the opcode       *)
(* leaves it. It has no Err path.                                          *)
(***************************************************************************)
OpOk(st) == [ok |-> TRUE, stack |-> st]

\* a failing arm that has popped its first operand before it tests the depth
OpFail_TakesTop(st) == [ok |-> FALSE, stack |-> IF st = <<>> THEN st ELSE Pop(st)]

OpFail(st) == [ok |-> FALSE, stack |-> st]

execute_opcode(opcode, st) ==
    LET n == Len(st) IN
    CASE opcode = 0 -> OpOk(Append(st, <<>>))                     \* OP_0
      [] opcode \in 81..96 -> OpOk(Append(st, <<opcode - 80>>))   \* OP_1..OP_16
      [] opcode = 118 ->                                          \* OP_DUP
            IF n >= 1 THEN OpOk(Append(st, st[n])) ELSE OpFail(st)
      [] opcode = 169 ->                                          \* OP_HASH160
            IF n >= 1
            THEN OpOk(Append(Pop(st), Ripemd160Digest(Sha256Digest(st[n]))))
            ELSE OpFail(st)
      [] opcode = 170 ->                                          \* OP_HASH256
            IF n >= 1
            THEN OpOk(Append(Pop(st), Sha256Digest(Sha256Digest(st[n]))))
            ELSE OpFail(st)
      [] opcode = 135 ->                                          \* OP_EQUAL
            IF n < 2 THEN OpFail(st)
            ELSE OpOk(Append(SubSeq(st, 1, n - 2),
                             IF st[n] = st[n - 1] THEN <<1>> ELSE <<0>>))
      [] opcode = 136 ->                                          \* OP_EQUALVERIFY
            IF n < 2 THEN OpFail(st)
            ELSE [ok |-> st[n] = st[n - 1], stack |-> SubSeq(st, 1, n - 2)]
      [] opcode = 172 ->                                          \* OP_CHECKSIG
            IF n < 2 THEN OpFail(st)
            ELSE OpOk(Append(SubSeq(st, 1, n - 2),
                             IF verify_signature(st[n], st[n - 1])
                             THEN <<1>> ELSE <<0>>))
      [] opcode = 173 ->                                          \* OP_CHECKSIGVERIFY
            IF n < 2 THEN OpFail(st)
            ELSE [ok |-> verify_signature(st[n], st[n - 1]),
                  stack |-> SubSeq(st, 1, n - 2)]
      [] opcode = 106 -> OpFail(st)                               \* OP_RETURN
      [] opcode = 105 ->                                          \* OP_VERIFY
            IF n >= 1 THEN [ok |-> Truthy(st[n]), stack |-> Pop(st)]
            ELSE OpFail(st)
      [] opcode = 115 ->                                          \* OP_IFDUP
            IF n >= 1
            THEN OpOk(IF Truthy(st[n]) THEN Append(st, st[n]) ELSE st)
            ELSE OpFail(st)
      [] opcode = 116 -> OpOk(Append(st, <<n % 256>>))            \* OP_DEPTH
      [] opcode = 117 ->                                          \* OP_DROP
            IF n >= 1 THEN OpOk(Pop(st)) ELSE OpFail(st)
      [] opcode = 119 ->                                          \* OP_NIP
            IF n >= 2 THEN OpOk(Append(SubSeq(st, 1, n - 2), st[n]))
            ELSE OpFail(st)
      [] opcode = 120 ->                                          \* OP_OVER
            IF n >= 2 THEN OpOk(Append(st, st[n - 1])) ELSE OpFail(st)
      [] opcode = 121 ->                                          \* OP_PICK
            IF n >= 1
            THEN LET n_bytes == st[n]
                     rest == Pop(st)
                 IN  IF n_bytes = <<>> THEN OpFail(rest)
                     ELSE IF n_bytes[1] < Len(rest)
                          THEN OpOk(Append(rest, rest[Len(rest) - n_bytes[1]]))
                          ELSE OpFail(rest)
            ELSE OpFail(st)
      [] opcode = 122 ->                                          \* OP_ROLL
            IF n >= 1
            THEN LET n_bytes == st[n]
                     rest == Pop(st)
                 IN  IF n_bytes = <<>> THEN OpFail(rest)
                     ELSE IF n_bytes[1] < Len(rest)
                          THEN OpOk(Append(RemoveAt(rest, Len(rest) - n_bytes[1]),
                                           rest[Len(rest) - n_bytes[1]]))
                          ELSE OpFail(rest)
            ELSE OpFail(st)
      [] opcode = 123 ->                                          \* OP_ROT
            IF n >= 3
            THEN OpOk(SubSeq(st, 1, n - 3) \o <<st[n - 1], st[n], st[n - 2]>>)
            ELSE OpFail(st)
      [] opcode = 124 ->                                          \* OP_SWAP
            IF n >= 2
            THEN OpOk(SubSeq(st, 1, n - 2) \o <<st[n], st[n - 1]>>)
            ELSE OpFail(st)
      [] opcode = 125 ->                                          \* OP_TUCK
            IF n >= 2
            THEN OpOk(SubSeq(st, 1, n - 2) \o <<st[n], st[n - 1], st[n]>>)
            ELSE OpFail(st)
      [] opcode = 109 ->                                          \* OP_2DROP
            IF n >= 2 THEN OpOk(SubSeq(st, 1, n - 2)) ELSE OpFail(st)
      [] opcode = 110 ->                                          \* OP_2DUP
            IF n >= 2 THEN OpOk(st \o <<st[n - 1], st[n]>>) ELSE OpFail(st)
      [] opcode = 111 ->                                          \* OP_3DUP
            IF n >= 3 THEN OpOk(st \o <<st[n - 2], st[n - 1], st[n]>>)
            ELSE OpFail(st)
      [] opcode = 112 ->                                          \* OP_2OVER
            IF n >= 4 THEN OpOk(st \o <<st[n - 3], st[n - 2]>>) ELSE OpFail(st)
      [] opcode = 113 ->                                          \* OP_2ROT
            \* remove(len-6) takes x1, then remove(len-5) on the shortened
            \* vector takes x2; x2 is pushed first, x1 second
            IF n >= 6
            THEN OpOk(SubSeq(st, 1, n - 6) \o SubSeq(st, n - 3, n)
                      \o <<st[n - 4], st[n - 5]>>)
            ELSE OpFail(st)
      [] opcode = 114 ->                                          \* OP_2SWAP
            IF n >= 4
            THEN OpOk(SubSeq(st, 1, n - 4)
                      \o <<st[n - 1], st[n], st[n - 3], st[n - 2]>>)
            ELSE OpFail(st)
      [] opcode = 130 ->                                          \* OP_SIZE
            IF n >= 1 THEN OpOk(Append(st, <<Len(st[n]) % 256>>))
            ELSE OpFail(st)
      [] OTHER -> OpFail(st)                                      \* unknown opcode

(***************************************************************************)
(* eval_script (src/src/script.rs:20-43).                                  *)
(***************************************************************************)
\* the opcode bytes execute_opcode has a match arm for (script.rs:85-415)
ImplementedOpcodes ==
    {0} \cup (81..96) \cup {105, 106} \cup (109..125)
        \cup {130, 135, 136, 169, 170, 172, 173}

\* the test `op_count > MAX_SCRIPT_OPS`, made after op_count += 1
OpLimitExceeded_OffByOne(cnt) == cnt > MAX_SCRIPT_OPS + 1

\* the same test written `>=`
OpLimitExceeded_Early(cnt) == cnt >= MAX_SCRIPT_OPS

OpLimitExceeded(cnt) == cnt > MAX_SCRIPT_OPS

\* the test `stack.len() > MAX_STACK_SIZE`
StackOverflow(st) == Len(st) > MAX_STACK_SIZE

\* the final stack check asking only for a truthy top element
FinalStackCheck_TopTruthy(st) == Len(st) >= 1 /\ Truthy(st[Len(st)])

\* the final stack check: exactly one element, and it is truthy
FinalStackCheck(st) == Len(st) = 1 /\ Truthy(st[1])

\* eval_iteration turning an opcode's Ok(false) into a hard error
eval_iteration_FailIsError(sc, st, cnt) ==
    IF OpLimitExceeded(cnt + 1)
    THEN [kind |-> "err", msg |-> "Operation limit exceeded", stack |-> st]
    ELSE IF StackOverflow(st)
    THEN [kind |-> "err", msg |-> "Stack overflow", stack |-> st]
    ELSE Bind(execute_opcode(sc[cnt + 1], st),
              LAMBDA r :
                IF ~r.ok
                THEN [kind |-> "err", msg |-> "Opcode failed", stack |-> r.stack]
                ELSE [kind |-> "cont", msg |-> "", stack |-> r.stack])

\* One iteration of the for loop, on the opcode after `cnt` consumed ones.
\* kind: "err" (return Err), "false" (return Ok(false)), "cont" (next opcode)
eval_iteration(sc, st, cnt) ==
    IF OpLimitExceeded(cnt + 1)
    THEN [kind |-> "err", msg |-> "Operation limit exceeded", stack |-> st]
    ELSE IF StackOverflow(st)
    THEN [kind |-> "err", msg |-> "Stack overflow", stack |-> st]
    ELSE Bind(execute_opcode(sc[cnt + 1], st),
              LAMBDA r :
                IF ~r.ok
                THEN [kind |-> "false", msg |-> "", stack |-> r.stack]
                ELSE [kind |-> "cont", msg |-> "", stack |-> r.stack])

\* The iterations for the opcodes lo+1 .. hi, in order, from the loop state
\* `at` (the outcome of the iterations before them); an "err" or "false"
\* outcome ends the loop. The range is split in halves only to keep the
\* evaluation shallow: the iterations run strictly left to right.
RECURSIVE eval_loop(_, _, _, _)
eval_loop(sc, at, lo, hi) ==
    IF at.kind # "cont" \/ lo >= hi THEN at
    ELSE IF hi = lo + 1 THEN eval_iteration(sc, at.stack, lo)
    ELSE Bind(eval_loop(sc, at, lo, (lo + hi) \div 2),
              LAMBDA left : eval_loop(sc, left, (lo + hi) \div 2, hi))

\* eval_script as a function of its arguments: the result and the stack left
eval_script(sc, st) ==
    Bind([kind |-> "cont", msg |-> "", stack |-> st],
         LAMBDA start :
           Bind(eval_loop(sc, start, 0, Len(sc)),
                LAMBDA end :
                  CASE end.kind = "err" ->
                         [result |-> "ScriptExecution", stack |-> end.stack]
                    [] end.kind = "false" ->
                         [result |-> "false", stack |-> end.stack]
                    [] OTHER ->
                         [result |-> IF FinalStackCheck(end.stack)
                                     THEN "true" ELSE "false",
                          stack |-> end.stack]))

(***************************************************************************)
(* verify_script (src/src/script.rs:52-79). witness is Option<&ByteString>:*)
(* [some |-> FALSE] is None.                                               *)
(***************************************************************************)
NoWitness == [some |-> FALSE, script |-> <<>>]
SomeWitness(w) == [some |-> TRUE, script |-> w]

\* the final validation, after the last stage left the stack st
FinalValidation(st) == IF FinalStackCheck(st) THEN "true" ELSE "false"

\* the witness stage and the final validation, on the stack st
verify_witness(witness, st) ==
    IF witness.some
    THEN Bind(eval_script(witness.script, st),
              LAMBDA r3 : IF r3.result # "true" THEN r3.result
                          ELSE FinalValidation(r3.stack))
    ELSE FinalValidation(st)

verify_script(script_sig, script_pubkey, witness) ==
    Bind(eval_script(script_sig, <<>>),
         LAMBDA r1 :
           IF r1.result # "true" THEN r1.result
           ELSE Bind(eval_script(script_pubkey, r1.stack),
                     LAMBDA r2 : IF r2.result # "true" THEN r2.result
                                 ELSE verify_witness(witness, r2.stack)))

(***************************************************************************)
(* Types (src/src/types.rs). Hash is [u8; 32].                             *)
(***************************************************************************)
ZeroHash == [i \in 1..32 |-> 0]

OutPoint(h, i) == [hash |-> h, index |-> i]
TxIn(op, sig) == [prevout |-> op, script_sig |-> sig, sequence |-> U32Max]
TxOut(v, spk) == [value |-> v, script_pubkey |-> spk]
Transaction(v, ins, outs, lt) ==
    [version |-> v, inputs |-> ins, outputs |-> outs, lock_time |-> lt]
UTXO(v, spk, h) == [value |-> v, script_pubkey |-> spk, height |-> h]

Valid == [tag |-> "Valid", reason |-> ""]
Invalid(r) == [tag |-> "Invalid", reason |-> r]

\* the empty HashMap
EmptyUtxoSet == [op \in {} |-> UTXO(WideZero, <<>>, 0)]

(***************************************************************************)
(* Economic model (src/src/economic.rs).                                   *)
(***************************************************************************)
\* the shift is applied whatever the halving count: in a build without
\* overflow checks i64 >> n takes n modulo 64
get_block_subsidy_NoCutoff(h) ==
    WideShr(INITIAL_SUBSIDY, (h \div HALVING_INTERVAL) % 64)

get_block_subsidy(h) ==
    LET halving_period == h \div HALVING_INTERVAL
    IN  IF halving_period >= 64 THEN WideZero
        ELSE WideShr(INITIAL_SUBSIDY, halving_period)

(***************************************************************************)
(* Transaction checks (src/src/transaction.rs).                            *)
(***************************************************************************)
is_coinbase(tx) ==
    /\ Len(tx.inputs) = 1
    /\ tx.inputs[1].prevout.hash = ZeroHash
    /\ tx.inputs[1].prevout.index = U32Max

calculate_transaction_size(tx) ==
    4 + Len(tx.inputs) * 41 + Len(tx.outputs) * 9 + 4

\* tx.outputs.iter().map(|o| o.value).sum()
\* the sum of the values of outs[lo+1 .. hi] (halved to stay shallow)
RECURSIVE SumValues(_, _, _)
SumValues(outs, lo, hi) ==
    IF lo >= hi THEN WideZero
    ELSE IF hi = lo + 1 THEN outs[hi].value
    ELSE LET mid == (lo + hi) \div 2
         IN  WideAdd(SumValues(outs, lo, mid), SumValues(outs, mid, hi))

SumOutputs(outs) == SumValues(outs, 0, Len(outs))

\* check_transaction without the upper bound on an output's value
check_transaction_NoValueCeiling(tx) ==
    IF tx.inputs = <<>> \/ tx.outputs = <<>>
    THEN Invalid("Empty inputs or outputs")
    ELSE IF \E i \in 1..Len(tx.outputs) :
                WideLt(tx.outputs[i].value, WideZero)
    THEN Invalid("Invalid output value")
    ELSE IF Len(tx.inputs) > MAX_INPUTS
    THEN Invalid("Too many inputs")
    ELSE IF Len(tx.outputs) > MAX_OUTPUTS
    THEN Invalid("Too many outputs")
    ELSE IF calculate_transaction_size(tx) > MAX_TX_SIZE
    THEN Invalid("Transaction too large")
    ELSE Valid

\* check_transaction with the output-count test written `>=`
check_transaction_StrictOutputs(tx) ==
    IF tx.inputs = <<>> \/ tx.outputs = <<>>
    THEN Invalid("Empty inputs or outputs")
    ELSE IF \E i \in 1..Len(tx.outputs) :
                \/ WideLt(tx.outputs[i].value, WideZero)
                \/ WideGt(tx.outputs[i].value, MAX_MONEY)
    THEN Invalid("Invalid output value")
    ELSE IF Len(tx.inputs) > MAX_INPUTS
    THEN Invalid("Too many inputs")
    ELSE IF Len(tx.outputs) >= MAX_OUTPUTS
    THEN Invalid("Too many outputs")
    ELSE IF calculate_transaction_size(tx) > MAX_TX_SIZE
    THEN Invalid("Transaction too large")
    ELSE Valid

check_transaction(tx) ==
    IF tx.inputs = <<>> \/ tx.outputs = <<>>
    THEN Invalid("Empty inputs or outputs")
    ELSE IF \E i \in 1..Len(tx.outputs) :
                \/ WideLt(tx.outputs[i].value, WideZero)
                \/ WideGt(tx.outputs[i].value, MAX_MONEY)
    THEN Invalid("Invalid output value")
    ELSE IF Len(tx.inputs) > MAX_INPUTS
    THEN Invalid("Too many inputs")
    ELSE IF Len(tx.outputs) > MAX_OUTPUTS
    THEN Invalid("Too many outputs")
    ELSE IF calculate_transaction_size(tx) > MAX_TX_SIZE
    THEN Invalid("Transaction too large")
    ELSE Valid

\* check_tx_inputs with the comparison of the totals written `<=`
check_tx_inputs_StrictFee(tx, us, h) ==
    IF is_coinbase(tx) THEN [res |-> Valid, fee |-> WideZero]
    ELSE IF \E i \in 1..Len(tx.inputs) : tx.inputs[i].prevout \notin DOMAIN us
    THEN [res |-> Invalid("Input not found in UTXO set"), fee |-> WideZero]
    ELSE LET total_input_value ==
                 SumValues([i \in 1..Len(tx.inputs) |->
                              us[tx.inputs[i].prevout]], 0, Len(tx.inputs))
             total_output_value == SumValues(tx.outputs, 0, Len(tx.outputs))
         IN  IF ~WideGt(total_input_value, total_output_value)
             THEN [res |-> Invalid("Insufficient input value"),
                   fee |-> WideZero]
             ELSE [res |-> Valid,
                   fee |-> WideSub(total_input_value, total_output_value)]

\* total_input_value += utxo.value, over inputs that are all present
SumInputs(ins, us) ==
    SumValues([i \in 1..Len(ins) |-> us[ins[i].prevout]], 0, Len(ins))

check_tx_inputs(tx, us, h) ==
    IF is_coinbase(tx) THEN [res |-> Valid, fee |-> WideZero]
    ELSE IF \E i \in 1..Len(tx.inputs) : tx.inputs[i].prevout \notin DOMAIN us
    THEN [res |-> Invalid("Input not found in UTXO set"), fee |-> WideZero]
    ELSE LET total_input_value == SumInputs(tx.inputs, us)
             total_output_value == SumOutputs(tx.outputs)
         IN  IF WideLt(total_input_value, total_output_value)
             THEN [res |-> Invalid("Insufficient input value"),
                   fee |-> WideZero]
             ELSE [res |-> Valid,
                   fee |-> WideSub(total_input_value, total_output_value)]

(***************************************************************************)
(* Block connection helpers (src/src/block.rs).                            *)
(***************************************************************************)
validate_block_header(header) ==
    IF header.version < 1 THEN FALSE
    ELSE IF header.bits = 0 THEN FALSE
    ELSE TRUE

\* the "simplified" id: four low bytes of four fields, the rest zero
calculate_tx_id(tx) ==
    [i \in 1..32 |->
        CASE i = 1 -> tx.version % 256
          [] i = 2 -> Len(tx.inputs) % 256
          [] i = 3 -> Len(tx.outputs) % 256
          [] i = 4 -> tx.lock_time % 256
          [] OTHER -> 0]

\* the keys apply_transaction inserts for tx
NewOutPoints(tx) ==
    {OutPoint(calculate_tx_id(tx), Wide(0, i - 1)) : i \in 1..Len(tx.outputs)}

apply_transaction(tx, us, h) ==
    LET spent == IF is_coinbase(tx) THEN {}
                 ELSE {tx.inputs[i].prevout : i \in 1..Len(tx.inputs)}
        kept == DOMAIN us \ spent
        created == NewOutPoints(tx)
    IN  [op \in kept \cup created |->
            IF op \in created
            THEN UTXO(tx.outputs[op.index[2] + 1].value,
                      tx.outputs[op.index[2] + 1].script_pubkey, h)
            ELSE us[op]]

\* a script loop that runs no script
verify_inputs_RunsNoScript(tx, us) == "true"

\* the script loop over the inputs of a non-coinbase transaction: "true", or
\* the verdict ("false" or an error kind) of the first input that stops it
verify_inputs(tx, us) ==
    LET verdict(j) ==
            IF tx.inputs[j].prevout \in DOMAIN us
            THEN verify_script(tx.inputs[j].script_sig,
                               us[tx.inputs[j].prevout].script_pubkey,
                               NoWitness)
            ELSE "true"
    IN  Bind([j \in 1..Len(tx.inputs) |-> verdict(j)],
             LAMBDA vs :
               IF \A j \in DOMAIN vs : vs[j] = "true" THEN "true"
               ELSE vs[CHOOSE j \in DOMAIN vs :
                         /\ vs[j] # "true"
                         /\ \A k \in 1..(j - 1) : vs[k] = "true"])

\* the body of the loop of step 2 for one transaction: "ok" with its fee,
\* "Invalid" with a reason, or the error kind that `?` propagates
check_block_tx(tx, us, h) ==
    IF check_transaction(tx).tag # "Valid"
    THEN [outcome |-> "Invalid", reason |-> "Invalid transaction", fee |-> WideZero]
    ELSE Bind(check_tx_inputs(tx, us, h),
      LAMBDA r :
        IF r.res.tag # "Valid"
        THEN [outcome |-> "Invalid",
              reason |-> "Invalid transaction inputs", fee |-> WideZero]
        ELSE Bind(IF is_coinbase(tx) THEN "true" ELSE verify_inputs(tx, us),
               LAMBDA v :
                 IF v = "true"
                 THEN [outcome |-> "ok", reason |-> "", fee |-> r.fee]
                 ELSE IF v = "false"
                 THEN [outcome |-> "Invalid",
                       reason |-> "Invalid script", fee |-> WideZero]
                 ELSE [outcome |-> v, reason |-> "", fee |-> WideZero]))

\* check_coinbase with the subsidy of height 0 whatever the height
check_coinbase_NoHalving(coinbase, fees, h) ==
    IF ~is_coinbase(coinbase) THEN "First transaction must be coinbase"
    ELSE IF WideGt(SumOutputs(coinbase.outputs),
                   WideAdd(fees, get_block_subsidy(0)))
    THEN "Coinbase output exceeds fees + subsidy"
    ELSE ""

\* check_coinbase without the test that the first transaction is a coinbase
check_coinbase_AnyFirst(coinbase, fees, h) ==
    IF WideGt(SumOutputs(coinbase.outputs),
              WideAdd(fees, get_block_subsidy(h)))
    THEN "Coinbase output exceeds fees + subsidy"
    ELSE ""

\* step 3 on a non-empty block: "" when the coinbase passes, else the reason
check_coinbase(coinbase, fees, h) ==
    IF ~is_coinbase(coinbase) THEN "First transaction must be coinbase"
    ELSE LET subsidy == get_block_subsidy(h)
             coinbase_output == SumOutputs(coinbase.outputs)
         IN  IF WideGt(coinbase_output, WideAdd(fees, subsidy))
             THEN "Coinbase output exceeds fees + subsidy"
             ELSE ""

(***************************************************************************)
(* Inputs of eval_script: the scripts and starting stacks a caller passes. *)
(***************************************************************************)
\* OP_0, OP_1, OP_2, 0x61 (no match arm), OP_RETURN, OP_3DUP, OP_DROP,
\* OP_DUP, OP_EQUAL, 0xff (no match arm)
ScriptAlphabet == {0, 81, 82, 97, 106, 111, 117, 118, 135, 255}

RECURSIVE SeqsUpTo(_, _)
SeqsUpTo(S, n) ==
    IF n = 0 THEN {<<>>}
    ELSE LET shorter == SeqsUpTo(S, n - 1)
         IN  shorter \cup {Append(q, x) : q \in shorter, x \in S}

\* scripts around the operation limit
LongScripts ==
    {Repeat(<<81>>, k) : k \in (MAX_SCRIPT_OPS - 1)..(MAX_SCRIPT_OPS + 2)}
    \cup {Repeat(<<118, 117>>, 101),
          Repeat(<<81, 117>>, 100) \o <<81>>,
          Repeat(<<81, 117>>, 100) \o <<81, 118>>,
          Repeat(<<81>>, 100) \o <<255>> \o Repeat(<<81>>, 110),
          Repeat(<<81>>, MAX_SCRIPT_OPS) \o <<255>>,
          Repeat(<<81>>, MAX_SCRIPT_OPS - 1) \o <<255>>,
          Repeat(<<118, 117>>, 100) \o <<97>>}

ScriptInputs == SeqsUpTo(ScriptAlphabet, MaxScriptLen) \cup LongScripts

\* starting stacks, shallow ones and ones around the depth limit
StackInputs ==
    {<<>>, <<<<1>>>>, <<<<>>>>, <<<<1>>, <<2>>>>, <<<<3>>, <<1>>, <<1>>>>}
    \cup {Repeat(<<<<1>>>>, k) :
            k \in (MAX_STACK_SIZE - 2)..(MAX_STACK_SIZE + 1)}

(***************************************************************************)
(* Inputs of connect_block: the transactions blocks are assembled from.    *)
(***************************************************************************)
CoinbaseInput == TxIn(OutPoint(ZeroHash, U32Max), <<>>)

\* a locking script of 202 opcodes that all succeed: (OP_DUP OP_DROP) x 101
LoopScript == Repeat(<<118, 117>>, 101)

CbFull == Transaction(1, <<CoinbaseInput>>,
                      <<TxOut(Wide(5, 0), <<>>)>>, 0)
CbOver == Transaction(1, <<CoinbaseInput>>,
                      <<TxOut(Wide(5, 1), <<>>)>>, 0)
CbTwo == Transaction(1, <<CoinbaseInput>>,
                     <<TxOut(Wide(1, 0), <<>>),
                       TxOut(Wide(1, 0), LoopScript)>>, 0)
SpendA == Transaction(1, <<TxIn(OutPoint(calculate_tx_id(CbFull), Wide(0, 0)), <<81>>)>>,
                      <<TxOut(Wide(4, 0), <<>>)>>, 0)
SpendB == Transaction(1, <<TxIn(OutPoint(calculate_tx_id(CbTwo), Wide(0, 0)), <<81>>)>>,
                      <<TxOut(Wide(0, 500000000), <<>>)>>, 7)
SpendErr == Transaction(1, <<TxIn(OutPoint(calculate_tx_id(CbTwo), Wide(0, 1)), <<81>>)>>,
                        <<TxOut(Wide(0, 1), <<>>)>>, 0)

\* coinbases for blocks connected to an empty set
CbHalf == Transaction(1, <<CoinbaseInput>>,
                      <<TxOut(Wide(2, 500000000), <<>>)>>, 0)
CbSplit == Transaction(1, <<CoinbaseInput>>,
                       <<TxOut(Wide(2, 500000000), <<81>>),
                         TxOut(Wide(2, 500000000), <<82>>)>>, 0)
CbZero == Transaction(1, <<CoinbaseInput>>, <<TxOut(WideZero, <<>>)>>, 0)
CbMax == Transaction(1, <<CoinbaseInput>>,
                     [i \in 1..MAX_OUTPUTS |-> TxOut(WideZero, <<>>)], 0)
CbMany == Transaction(1, <<CoinbaseInput>>,
                      [i \in 1..(MAX_OUTPUTS + 1) |-> TxOut(WideZero, <<>>)], 0)

\* a set passed in by a caller that validates candidate blocks against one
\* and the same tip: three outputs of 10 BTC of an earlier transaction, the
\* first two spendable by anyone, the third locked by OP_DROP (no unlocking
\* script of the pool satisfies it)
SpendHash == [i \in 1..32 |-> 9]

FundedSet ==
    [op \in {OutPoint(SpendHash, Wide(0, k)) : k \in 0..2} |->
        UTXO(Wide(1, 0), IF op.index = Wide(0, 2) THEN <<117>> ELSE <<>>, 0)]

\* the candidates' transactions; their version and lock_time keep their ids
\* apart
CbPlain == Transaction(2, <<CoinbaseInput>>, <<TxOut(Wide(5, 0), <<>>)>>, 0)
CbSecond == Transaction(2, <<CoinbaseInput>>, <<TxOut(Wide(5, 0), <<>>)>>, 3)
SpendOnce ==
    Transaction(1, <<TxIn(OutPoint(SpendHash, Wide(0, 0)), <<81>>)>>,
                <<TxOut(Wide(1, 0), <<>>)>>, 0)
SpendTwice ==
    Transaction(1, <<TxIn(OutPoint(SpendHash, Wide(0, 0)), <<81>>),
                     TxIn(OutPoint(SpendHash, Wide(0, 0)), <<81>>)>>,
                <<TxOut(Wide(2, 0), <<>>)>>, 0)
SpendAgain ==
    Transaction(1, <<TxIn(OutPoint(SpendHash, Wide(0, 0)), <<81>>)>>,
                <<TxOut(Wide(1, 0), <<>>)>>, 1)
SpendFalse ==
    Transaction(1, <<TxIn(OutPoint(SpendHash, Wide(0, 1)), <<81>>),
                     TxIn(OutPoint(SpendHash, Wide(0, 2)), <<81>>)>>,
                <<TxOut(Wide(2, 0), <<>>)>>, 2)

\* ids of the transactions blocks on a growing chain are assembled from
ChainTxIds == 1..6
\* ids of the transactions of the candidates validated against FundedSet
SpendTxIds == 12..17
\* ids of the coinbases of blocks connected to an empty set
GenesisTxIds == {1, 2, 3, 7, 8, 9, 10, 11}

\* the transaction with a given id
Tx(id) ==
    CASE id = 1 -> CbFull
      [] id = 2 -> CbOver
      [] id = 3 -> CbTwo
      [] id = 4 -> SpendA
      [] id = 5 -> SpendB
      [] id = 6 -> SpendErr
      [] id = 7 -> CbHalf
      [] id = 8 -> CbSplit
      [] id = 9 -> CbZero
      [] id = 10 -> CbMax
      [] id = 11 -> CbMany
      [] id = 12 -> CbPlain
      [] id = 13 -> CbSecond
      [] id = 14 -> SpendOnce
      [] id = 15 -> SpendTwice
      [] id = 16 -> SpendAgain
      [] id = 17 -> SpendFalse

Header(v, b) ==
    [version |-> v, prev_block_hash |-> ZeroHash, merkle_root |-> ZeroHash,
     timestamp |-> 1231006505, bits |-> b, nonce |-> 0]

\* the transaction lists of the blocks a caller submits, as ids
BlockInputs == SeqsUpTo(ChainTxIds, MaxBlockTxs)

\* the calls a caller makes, <<transactions, header, height>>: every block
\* under a sound header at two heights, and the empty and the genesis-like
\* block under the two unsound headers; 50397183 = 0x0300ffff
CallInputs ==
    {<<txs, Header(1, 50397183), h>> :
        txs \in BlockInputs, h \in {0, HALVING_INTERVAL}}
    \cup {<<txs, hd, 0>> :
            txs \in {<<>>, <<1>>},
            hd \in {Header(0, 50397183), Header(1, 0)}}

\* the calls of a caller that connects coinbase-only blocks to an empty set
GenesisInputs ==
    {<<<<id>>, hd, h>> :
        id \in GenesisTxIds,
        hd \in {Header(1, 50397183), Header(2, 486604799),
                Header(0, 50397183), Header(1, 0)},
        h \in {0, HALVING_INTERVAL, 2 * HALVING_INTERVAL,
               64 * HALVING_INTERVAL}}

\* the calls of a caller that validates candidates of up to three
\* transactions against FundedSet
SpendInputs ==
    {<<txs, Header(1, 50397183), 0>> : txs \in SeqsUpTo(SpendTxIds, MaxSpendTxs)}

\* the transactions of the block in progress
Txs == [i \in 1..Len(block.transactions) |-> Tx(block.transactions[i])]

NoBlock == [header |-> Header(0, 0), transactions |-> <<>>]

(***************************************************************************)
(* Initial state: no call in progress, the UTXO set of an empty chain.     *)
(***************************************************************************)
Init ==
    /\ script = <<>>
    /\ stack = <<>>
    /\ op_count = 0
    /\ s_pc = "idle"
    /\ s_result = "none"
    /\ s_failed = FALSE
    /\ block = NoBlock
    /\ height = 0
    /\ utxo_set = EmptyUtxoSet
    /\ utxo_in = EmptyUtxoSet
    /\ pc = "idle"
    /\ idx = 1
    /\ total_fees = WideZero
    /\ result = "none"
    /\ reason = ""
    /\ calls = 0
    /\ fn = "none"
    /\ arg = <<>>
    /\ out = <<>>

(***************************************************************************)
(* eval_script, opcode by opcode.                                          *)
(***************************************************************************)
EvalCall ==
    /\ s_pc = "idle"
    /\ \E sc \in ScriptInputs, st \in StackInputs :
          /\ script' = sc
          /\ stack' = st
    /\ op_count' = 0
    /\ s_pc' = "loop"
    /\ s_result' = "none"
    /\ s_failed' = FALSE
    /\ UNCHANGED <<block_vars, call_vars>>

\* one iteration of `for opcode in script`
EvalStep ==
    /\ s_pc = "loop"
    /\ op_count < Len(script)
    /\ LET it == eval_iteration(script, stack, op_count)
       IN  /\ op_count' = op_count + 1
           /\ stack' = it.stack
           /\ s_failed' = (it.kind = "false")
           /\ s_pc' = IF it.kind = "cont" THEN "loop" ELSE "done"
           /\ s_result' = CASE it.kind = "err" -> "ScriptExecution"
                            [] it.kind = "false" -> "false"
                            [] OTHER -> "none"
    /\ UNCHANGED <<script, block_vars, call_vars>>

\* the loop is exhausted: the final stack check
EvalEnd ==
    /\ s_pc = "loop"
    /\ op_count = Len(script)
    /\ s_result' = IF FinalStackCheck(stack) THEN "true" ELSE "false"
    /\ s_pc' = "done"
    /\ UNCHANGED <<script, stack, op_count, s_failed, block_vars, call_vars>>

EvalReturn ==
    /\ s_pc = "done"
    /\ script' = <<>>
    /\ stack' = <<>>
    /\ op_count' = 0
    /\ s_pc' = "idle"
    /\ s_result' = "none"
    /\ s_failed' = FALSE
    /\ UNCHANGED <<block_vars, call_vars>>

\* the largest u8
U8Max == 255

\* DUP, DROP, SWAP, OVER, ROT, NIP, TUCK, PICK, ROLL, 2DROP, 2DUP, 3DUP,
\* 2OVER, 2ROT, 2SWAP
StackOps == {118, 117, 124, 120, 123, 119, 125, 121, 122,
             109, 110, 111, 112, 113, 114}

\* stacks for one stack opcode: every stack of up to two items over four
\* byte strings, and deeper ones with in-range and out-of-range operands
StackOpStacks ==
    SeqsUpTo({<<>>, <<0>>, <<1>>, <<2>>}, 2)
    \cup {<<<<5>>, <<6>>, <<7>>>>,
          <<<<5>>, <<6>>, <<2>>>>,
          <<<<5>>, <<6>>, <<>>>>,
          <<<<5>>, <<6>>, <<7>>, <<3>>>>,
          <<<<5>>, <<6>>, <<7>>, <<2>>>>,
          <<<<5>>, <<6>>, <<7>>, <<255>>>>,
          <<<<5>>, <<6>>, <<7>>, <<8>>, <<9>>>>,
          <<<<5>>, <<6>>, <<7>>, <<8>>, <<9>>, <<10>>>>,
          <<<<5>>, <<6>>, <<7>>, <<8>>, <<9>>, <<10>>, <<11>>>>}
    \cup {Repeat(<<<<1>>>>, k) : k \in {U8Max, U8Max + 1, MAX_STACK_SIZE}}

\* IFDUP, DEPTH, SIZE, EQUAL
StackQueryOps == {115, 116, 130, 135}

\* eval_script called on a script of one stack opcode
StackOpCall ==
    /\ s_pc = "idle"
    /\ \E op \in StackOps \cup StackQueryOps, st \in StackOpStacks :
          /\ script' = <<op>>
          /\ stack' = st
    /\ op_count' = 0
    /\ s_pc' = "loop"
    /\ s_result' = "none"
    /\ s_failed' = FALSE
    /\ UNCHANGED <<block_vars, call_vars>>

NextStackOps == StackOpCall \/ EvalStep \/ EvalEnd \/ EvalReturn

SpecStackOps == Init /\ [][NextStackOps]_vars

NextScript == EvalCall \/ EvalStep \/ EvalEnd \/ EvalReturn

SpecScript == Init /\ [][NextScript]_vars

(***************************************************************************)
(* Calls of the functions that keep no state between calls: the arguments  *)
(* are drawn from a pool, the function is applied, the caller takes the    *)
(* result.                                                                 *)
(***************************************************************************)
\* the caller has taken the result
CallReturn ==
    /\ fn # "none"
    /\ fn' = "none"
    /\ arg' = <<>>
    /\ out' = <<>>
    /\ UNCHANGED <<script_vars, block_vars>>

\* ---- check_transaction (src/src/transaction.rs:15-53)
CtInput == TxIn(OutPoint(Repeat(<<7>>, 32), WideZero), <<>>)

\* nin inputs and nout outputs of value 1, but for the value v at position pos
CtTx(nin, nout, v, pos) ==
    Transaction(1, [i \in 1..nin |-> CtInput],
                [i \in 1..nout |->
                   TxOut(IF i = pos THEN v ELSE Wide(0, 1), <<>>)], 0)

\* input and output counts: none, few, at the limit, beyond it
CtCounts == {0, 1, 2, MAX_INPUTS, MAX_INPUTS + 1}

\* output values: -1, 0, 1, MAX_MONEY, MAX_MONEY + 1
CtValues == {Wide(-1, WideBase - 1), WideZero, Wide(0, 1), MAX_MONEY,
             WideAdd(MAX_MONEY, Wide(0, 1))}

\* one input whose script_sig alone is MAX_TX_SIZE bytes long
BigScriptTx ==
    Transaction(1, <<TxIn(OutPoint(Repeat(<<7>>, 32), WideZero),
                          [i \in 1..MAX_TX_SIZE |-> 0])>>,
                <<TxOut(Wide(0, 1000), <<>>)>>, 0)

CheckTransactionInputs ==
    {CtTx(a, b, v, IF last THEN b ELSE 1) :
        a \in CtCounts, b \in CtCounts, v \in CtValues, last \in BOOLEAN}
    \cup {BigScriptTx}

CheckTransactionCall ==
    /\ fn = "none"
    /\ \E tx \in CheckTransactionInputs :
          /\ arg' = tx
          /\ out' = check_transaction(tx)
    /\ fn' = "check_transaction"
    /\ UNCHANGED <<script_vars, block_vars>>

\* ---- check_tx_inputs (src/src/transaction.rs:63-97)
CtiOutPoint(k) == OutPoint(Repeat(<<k>>, 32), WideZero)

\* UTXO sets: empty, one entry of 5, entries of 5 and of MAX_MONEY
CtiUtxoSets ==
    {EmptyUtxoSet,
     [op \in {CtiOutPoint(1)} |-> UTXO(Wide(0, 5), <<>>, 0)],
     [op \in {CtiOutPoint(1), CtiOutPoint(2)} |->
        IF op = CtiOutPoint(1) THEN UTXO(Wide(0, 5), <<>>, 0)
        ELSE UTXO(MAX_MONEY, <<81>>, 7)]}

\* one or two inputs over three OutPoints, the third in no set
CtiInputLists ==
    {[i \in 1..Len(ks) |-> TxIn(CtiOutPoint(ks[i]), <<81>>)] :
        ks \in SeqsUpTo({1, 2, 3}, 2) \ {<<>>}}

CtiOutputLists ==
    {[i \in 1..Len(vs) |-> TxOut(vs[i], <<>>)] :
        vs \in {<<WideZero>>, <<Wide(0, 4)>>, <<Wide(0, 5)>>, <<Wide(0, 6)>>,
                <<Wide(0, 5), Wide(0, 5)>>, <<Wide(0, 5), Wide(0, 6)>>,
                <<MAX_MONEY, Wide(0, 5)>>, <<MAX_MONEY, Wide(0, 6)>>,
                <<MAX_MONEY>>, <<Wide(0, WideBase - 1), Wide(0, 1)>>}}

CheckTxInputsTxs ==
    {Transaction(1, ins, outs, 0) : ins \in CtiInputLists, outs \in CtiOutputLists}
    \cup {CbFull}

CheckTxInputsCall ==
    /\ fn = "none"
    /\ \E tx \in CheckTxInputsTxs, us \in CtiUtxoSets :
          /\ arg' = [tx |-> tx, utxo_set |-> us, height |-> 0]
          /\ out' = check_tx_inputs(tx, us, 0)
    /\ fn' = "check_tx_inputs"
    /\ UNCHANGED <<script_vars, block_vars>>

NextTx == CheckTransactionCall \/ CheckTxInputsCall \/ CallReturn

SpecTx == Init /\ [][NextTx]_vars

\* ---- calculate_tx_id (src/src/block.rs:165-174)
\* inputs that differ from the first in the prevout hash, the prevout index,
\* the script and the sequence; a list of two
TxIdInputLists ==
    LET base == TxIn(OutPoint(Repeat(<<7>>, 32), WideZero), <<>>)
    IN  {<<base>>,
         <<[base EXCEPT !.prevout.hash = Repeat(<<8>>, 32)]>>,
         <<[base EXCEPT !.prevout.index = Wide(0, 1)]>>,
         <<[base EXCEPT !.script_sig = <<81>>]>>,
         <<[base EXCEPT !.sequence = Wide(0, 0)]>>,
         <<base, base>>}

\* outputs that differ from the first in the value and the script; a list of
\* two
TxIdOutputLists ==
    {<<TxOut(Wide(0, 1000), <<>>)>>, <<TxOut(Wide(0, 1001), <<>>)>>,
     <<TxOut(Wide(0, 1000), <<81>>)>>,
     <<TxOut(Wide(0, 1000), <<>>), TxOut(Wide(0, 1000), <<>>)>>}

\* versions and lock times that differ in the low byte, and in a higher one
TxIdInputs ==
    {Transaction(v, ins, outs, lt) :
        v \in {1, 2, 257}, ins \in TxIdInputLists, outs \in TxIdOutputLists,
        lt \in {0, 1, 256}}

CalculateTxIdCall ==
    /\ fn = "none"
    /\ \E tx \in TxIdInputs :
          /\ arg' = tx
          /\ out' = calculate_tx_id(tx)
    /\ fn' = "calculate_tx_id"
    /\ UNCHANGED <<script_vars, block_vars>>

NextTxId == CalculateTxIdCall \/ CallReturn

SpecTxId == Init /\ [][NextTxId]_vars

\* OP_0, OP_1, OP_DROP, OP_EQUAL
VerifyAlphabet == {0, 81, 117, 135}

VerifyScripts == SeqsUpTo(VerifyAlphabet, MaxScriptLen)

VerifyWitnesses ==
    {NoWitness, SomeWitness(<<>>), SomeWitness(<<81>>), SomeWitness(<<117>>)}

\* stages around the operation limit: 201 and 202 opcodes that leave [[1]]
\* on an empty stack, 200 and 202 opcodes that leave a stack as they found it
Sig201 == Repeat(<<81, 117>>, 100) \o <<81>>
Sig202 == Sig201 \o <<118>>
Spk200 == Repeat(<<118, 117>>, 100)
Spk202 == Repeat(<<118, 117>>, 101)

\* the calls: every pair of short scripts with every witness, and the calls
\* whose stages are around the operation limit
VerifyCalls ==
    (VerifyScripts \X VerifyScripts \X VerifyWitnesses)
    \cup ({<<81>>, Sig201, Sig202} \X {<<>>, Spk200, Spk202}
          \X {NoWitness, SomeWitness(Spk200), SomeWitness(Spk202)})

VerifyScriptCall ==
    /\ fn = "none"
    /\ \E c \in VerifyCalls :
          /\ arg' = [script_sig |-> c[1], script_pubkey |-> c[2], witness |-> c[3]]
          /\ out' = verify_script(c[1], c[2], c[3])
    /\ fn' = "verify_script"
    /\ UNCHANGED <<script_vars, block_vars>>

NextVerify == VerifyScriptCall \/ CallReturn

SpecVerify == Init /\ [][NextVerify]_vars

(***************************************************************************)
(* Proof of work (src/src/pow.rs). A u64 word of U256([u64; 4]) is the set *)
(* of the positions 0..63 of its one bits, so that | is union and a shift  *)
(* moves positions and drops those that leave the word; word 0 of the      *)
(* array is element 1 of the tuple. header.bits is a Natural (u64), held   *)
(* as a wide value.                                                        *)
(***************************************************************************)
RECURSIVE Pow2(_)
Pow2(n) == IF n = 0 THEN 1 ELSE 2 * Pow2(n - 1)

\* v >> k
RECURSIVE Halve(_, _)
Halve(v, k) == IF k = 0 THEN v ELSE Halve(v \div 2, k - 1)

\* the one bits of v among the positions 0..n-1
BitsOf(v, n) == {k \in 0..(n - 1) : Halve(v, k) % 2 = 1}

SetMax(S) == CHOOSE x \in S : \A y \in S : y <= x

\* w << s and w >> s on a u64, 0 <= s < 64
WordShl(w, s) == {k + s : k \in {j \in w : j + s < 64}}
WordShr(w, s) == {k - s : k \in {j \in w : j >= s}}

\* u64::cmp
WordCmp(a, b) ==
    IF a = b THEN "Equal"
    ELSE IF SetMax((a \ b) \cup (b \ a)) \in b THEN "Less" ELSE "Greater"

U256_zero == <<{}, {}, {}, {}>>

U256_from_u32(value) == <<BitsOf(value, 32), {}, {}, {}>>

\* the loop only ORs into a zero result, so each word of the result is the
\* union of what the iterations put there
U256_shl_NoCarry(u, shift) ==
    IF shift >= 256 THEN U256_zero
    ELSE LET word_shift == shift \div 64
             bit_shift == shift % 64
         IN  [j \in 1..4 |->
                UNION {WordShl(u[i + 1], bit_shift) :
                         i \in {i \in 0..3 : /\ i + word_shift < 4
                                             /\ i + word_shift = j - 1}}]

U256_shl(u, shift) ==
    IF shift >= 256 THEN U256_zero
    ELSE LET word_shift == shift \div 64
             bit_shift == shift % 64
         IN  [j \in 1..4 |->
                UNION ({WordShl(u[i + 1], bit_shift) :
                          i \in {i \in 0..3 : /\ i + word_shift < 4
                                              /\ i + word_shift = j - 1}}
                       \cup
                       {WordShr(u[i + 1], 64 - bit_shift) :
                          i \in {i \in 0..3 : /\ i + word_shift < 4
                                              /\ bit_shift > 0
                                              /\ i + word_shift + 1 < 4
                                              /\ i + word_shift + 1 = j - 1}})]

U256_shr(u, shift) ==
    IF shift >= 256 THEN U256_zero
    ELSE LET word_shift == shift \div 64
             bit_shift == shift % 64
         IN  [j \in 1..4 |->
                UNION ({WordShr(u[i + 1], bit_shift) :
                          i \in {i \in 0..3 : /\ i >= word_shift
                                              /\ i - word_shift = j - 1}}
                       \cup
                       {WordShl(u[i + 1], 64 - bit_shift) :
                          i \in {i \in 0..3 : /\ i >= word_shift
                                              /\ bit_shift > 0
                                              /\ i - word_shift + 1 < 4
                                              /\ i - word_shift + 1 = j - 1}})]

\* word i is written out as its eight bytes, least significant first
U256_to_bytes(u) ==
    [n \in 1..32 |->
        LET i == (n - 1) \div 8
            j == (n - 1) % 8
            bs == {k \in 0..7 : 8 * j + k \in u[i + 1]}
        IN  (IF 0 \in bs THEN 1 ELSE 0) + (IF 1 \in bs THEN 2 ELSE 0)
            + (IF 2 \in bs THEN 4 ELSE 0) + (IF 3 \in bs THEN 8 ELSE 0)
            + (IF 4 \in bs THEN 16 ELSE 0) + (IF 5 \in bs THEN 32 ELSE 0)
            + (IF 6 \in bs THEN 64 ELSE 0) + (IF 7 \in bs THEN 128 ELSE 0)]

\* a reading that takes byte 0 as the most significant byte of word 3
U256_from_bytes_BigEndian(bytes) ==
    [i \in 1..4 |->
        UNION {{8 * (7 - j) + k : k \in BitsOf(bytes[8 * (4 - i) + j + 1], 8)} :
                 j \in 0..7}]

\* word i is u64::from_le_bytes of the bytes 8i .. 8i+7
U256_from_bytes(bytes) ==
    [i \in 1..4 |->
        UNION {{8 * j + k : k \in BitsOf(bytes[8 * (i - 1) + j + 1], 8)} :
                 j \in 0..7}]

\* Ord::cmp: the words from index 3 down to 0, the first difference decides
RECURSIVE CmpFrom(_, _, _)
CmpFrom(a, b, i) ==
    IF i = 0 THEN "Equal"
    ELSE IF WordCmp(a[i], b[i]) = "Equal" THEN CmpFrom(a, b, i - 1)
    ELSE WordCmp(a[i], b[i])

U256_cmp(a, b) == CmpFrom(a, b, 4)

\* Ok(value) and Err(ConsensusError::InvalidProofOfWork(msg))
TargetOk(u) == [kind |-> "Ok", value |-> u, msg |-> ""]
TargetErr(m) == [kind |-> "InvalidProofOfWork", value |-> U256_zero, msg |-> m]

\* 10^9 = 59 * 2^24 + 10144256, so that for bits = hi * 10^9 + lo
\* bits >> 24 = 59 * hi + (10144256 * hi + lo) >> 24, and the low 24 bits
\* of bits are those of 10144256 * hi + lo
BitsLow(bits) == bits[1] * 10144256 + bits[2]

\* (bits >> 24) as u8
ExponentByte(bits) == (bits[1] * 59 + (BitsLow(bits) \div Pow2(24))) % 256

\* bits & 0x00ffffff
Mantissa(bits) == BitsLow(bits) % Pow2(24)

expand_target_NoCeiling(bits) ==
    LET exponent == ExponentByte(bits)
        mantissa == Mantissa(bits)
    IN  IF exponent < 3 \/ exponent > 32
          THEN TargetErr("Invalid target exponent")
        ELSE IF mantissa = 0 THEN TargetOk(U256_zero)
        ELSE IF exponent <= 3
          THEN TargetOk(U256_shr(U256_from_u32(mantissa), 8 * (3 - exponent)))
        ELSE IF 8 * (exponent - 3) >= 255 THEN TargetErr("Target too large")
        ELSE TargetOk(U256_shl(U256_from_u32(mantissa), 8 * (exponent - 3)))

expand_target(bits) ==
    LET exponent == ExponentByte(bits)
        mantissa == Mantissa(bits)
    IN  IF exponent < 3 \/ exponent > 32
          THEN TargetErr("Invalid target exponent")
        ELSE IF exponent > 29 THEN TargetErr("Target too large")
        ELSE IF mantissa = 0 THEN TargetOk(U256_zero)
        ELSE IF exponent <= 3
          THEN TargetOk(U256_shr(U256_from_u32(mantissa), 8 * (3 - exponent)))
        ELSE IF 8 * (exponent - 3) >= 255 THEN TargetErr("Target too large")
        ELSE TargetOk(U256_shl(U256_from_u32(mantissa), 8 * (exponent - 3)))

\* hash2 is Sha256(Sha256(serialize_header(header))), the digest the sha2
\* crate hands back; the result is "true", "false" or the error kind
check_proof_of_work_ErrIsFalse(header, hash2) ==
    LET hash_value == U256_from_bytes(hash2)
        target == expand_target(header.bits)
    IN  IF target.kind # "Ok" THEN "false"
        ELSE IF U256_cmp(hash_value, target.value) = "Less" THEN "true"
        ELSE "false"

check_proof_of_work(header, hash2) ==
    LET hash_value == U256_from_bytes(hash2)
        target == expand_target(header.bits)
    IN  IF target.kind # "Ok" THEN target.kind
        ELSE IF U256_cmp(hash_value, target.value) = "Less" THEN "true"
        ELSE "false"

\* ---- the calls
RECURSIVE WideTimes(_, _)
WideTimes(a, k) ==
    IF k = 0 THEN WideZero
    ELSE Bind(WideTimes(a, k \div 2),
              LAMBDA h : WideAdd(WideAdd(h, h),
                                 IF k % 2 = 1 THEN a ELSE WideZero))

\* the compact value with exponent byte e and mantissa m: e * 2^24 + m
CompactBits(e, m) == WideAdd(WideTimes(Wide(0, Pow2(24)), e), Wide(0, m))

\* every exponent byte around the accepted range, and the bytes where a
\* signed or a wider reading would differ
PowExponents == (0..40) \cup {127, 128, 255}

\* 0, 1, 0xffff, 0x7fffff, 0x800000, 0xffffff
PowMantissas == {0, 1, 65535, 8388607, 8388608, 16777215}

\* 0x1_1d00ffff: a Natural above 32 bits whose exponent byte is 0x1d
WideBits == Wide(4, 781572095)

ExpandTargetInputs ==
    {CompactBits(e, m) : e \in PowExponents, m \in PowMantissas}
    \cup {WideBits}

ExpandTargetCall ==
    /\ fn = "none"
    /\ \E bits \in ExpandTargetInputs :
          /\ arg' = bits
          /\ out' = expand_target(bits)
    /\ fn' = "expand_target"
    /\ UNCHANGED <<script_vars, block_vars>>

PowHeader(bits) ==
    [version |-> 1, prev_block_hash |-> ZeroHash, merkle_root |-> ZeroHash,
     timestamp |-> 1231006505, bits |-> bits, nonce |-> 0]

PowHeaders ==
    {PowHeader(CompactBits(e, m)) :
        e \in {2, 3, 4, 29, 30, 33}, m \in {0, 65535}}

Reverse(s) == [i \in 1..Len(s) |-> s[Len(s) + 1 - i]]

\* the bytes of a target, those of the target less one unit in its lowest
\* non-zero byte, both in either byte order, and digests with a single low
\* or high byte set
Digests ==
    LET targets == {expand_target(h.bits).value : h \in PowHeaders}
        exact == {U256_to_bytes(t) : t \in targets}
        below == {[n \in 1..32 |->
                     IF d[n] # 0 /\ \A k \in 1..(n - 1) : d[k] = 0
                       THEN d[n] - 1 ELSE d[n]] : d \in exact}
        base == {[n \in 1..32 |-> 0], [n \in 1..32 |-> 255],
                 [n \in 1..32 |-> IF n = 1 THEN 1 ELSE 0],
                 [n \in 1..32 |-> IF n = 32 THEN 1 ELSE 0]}
    IN  base \cup exact \cup below \cup {Reverse(d) : d \in exact \cup below}

CheckProofOfWorkCall ==
    /\ fn = "none"
    /\ \E header \in PowHeaders, hash2 \in Digests :
          /\ arg' = [header |-> header, hash2 |-> hash2]
          /\ out' = check_proof_of_work(header, hash2)
    /\ fn' = "check_proof_of_work"
    /\ UNCHANGED <<script_vars, block_vars>>

NextPow == ExpandTargetCall \/ CheckProofOfWorkCall \/ CallReturn

SpecPow == Init /\ [][NextPow]_vars

\* ---- U256::shl and U256::shr (src/src/pow.rs:95-135)
\* 0x12345678, 1, 2^63, a value with the lowest and the highest bit of every
\* word, one bit in word 1, the highest bit of all, and zero
U256Values ==
    {U256_from_u32(305419896), U256_from_u32(1), <<{63}, {}, {}, {}>>,
     <<{0, 63}, {0, 63}, {0, 63}, {0, 63}>>, <<{}, {5}, {}, {}>>,
     <<{}, {}, {}, {63}>>, U256_zero}

\* shift amounts: none, within a word, whole words, across words, and 256
U256Shifts == {0, 1, 8, 63, 64, 65, 128, 192, 255, 256}

U256ShlCall ==
    /\ fn = "none"
    /\ \E u \in U256Values, shift \in U256Shifts :
          /\ arg' = [self |-> u, shift |-> shift]
          /\ out' = U256_shl(u, shift)
    /\ fn' = "U256_shl"
    /\ UNCHANGED <<script_vars, block_vars>>

U256ShrCall ==
    /\ fn = "none"
    /\ \E u \in U256Values, shift \in U256Shifts :
          /\ arg' = [self |-> u, shift |-> shift]
          /\ out' = U256_shr(u, shift)
    /\ fn' = "U256_shr"
    /\ UNCHANGED <<script_vars, block_vars>>

NextU256 == U256ShlCall \/ U256ShrCall \/ CallReturn

SpecU256 == Init /\ [][NextU256]_vars

(***************************************************************************)
(* Difficulty adjustment (src/src/pow.rs:18-48). Timestamps are Naturals   *)
(* (u64) small enough to be held as integers; bits is a wide value. The    *)
(* f64 quotient time_span / expected_time is held as the fraction in       *)
(* lowest terms, and (bits as f64 / ratio) as Natural as the integer part  *)
(* of the exact quotient. The two agree wherever both f64 divisions are    *)
(* exact or their error cannot reach the next integer: for bits below 2^53 *)
(* and a ratio whose denominator is a power of two, which is what the      *)
(* calls below supply.                                                     *)
(***************************************************************************)
DIFFICULTY_ADJUSTMENT_INTERVAL == 2016

TARGET_TIME_PER_BLOCK == 600

\* 0x1d00ffff
MAX_TARGET == 486604799

RECURSIVE GCD(_, _)
GCD(a, b) == IF b = 0 THEN a ELSE GCD(b, a % b)

\* a / p rounded to the nearest integer, halves upwards
WideDivSmall_Nearest(a, p) ==
    LET b == WideAdd(a, <<0, p \div 2>>)
        r == b[1] % p
    IN  <<b[1] \div p,
          r * (WideBase \div p) + (r * (WideBase % p) + b[2]) \div p>>

\* the integer part of a / p, for 0 < p < 10^4
WideDivSmall(a, p) ==
    LET r == a[1] % p
    IN  <<a[1] \div p,
          r * (WideBase \div p) + (r * (WideBase % p) + a[2]) \div p>>

\* no minimum is taken
WideMin_First(a, b) == a

WideMin(a, b) == IF WideLt(b, a) THEN b ELSE a

WorkOk(b) == [kind |-> "Ok", bits |-> b]

\* the initial difficulty in place of the error
WorkErr_InitialDifficulty == [kind |-> "Ok", bits |-> <<0, 486604799>>]

WorkErr == [kind |-> "InvalidProofOfWork", bits |-> WideZero]
WorkPanic == [kind |-> "panic", bits |-> WideZero]

\* the adjustment after clamping to [0.25, 4.0], as <<numerator, denominator>>
ClampedAdjustment(time_span, expected_time) ==
    IF 4 * time_span < expected_time THEN <<1, 4>>
    ELSE IF time_span > 4 * expected_time THEN <<4, 1>>
    ELSE LET g == GCD(time_span, expected_time)
         IN  <<time_span \div g, expected_time \div g>>

\* the elapsed time is taken from the last prior header, not the first
get_next_work_required_FromLastHeader(current_header, prev_headers, overflow_checks) ==
    IF Len(prev_headers) < 2 THEN WorkErr
    ELSE IF current_header.timestamp < prev_headers[Len(prev_headers)].timestamp
              /\ overflow_checks
      THEN WorkPanic
    ELSE LET expected_time ==
                 DIFFICULTY_ADJUSTMENT_INTERVAL * TARGET_TIME_PER_BLOCK
             clamped_adjustment ==
                 IF current_header.timestamp
                      < prev_headers[Len(prev_headers)].timestamp
                   THEN <<4, 1>>
                   ELSE ClampedAdjustment(
                            current_header.timestamp
                              - prev_headers[Len(prev_headers)].timestamp,
                            expected_time)
             new_target ==
                 WideDivSmall(WideTimes(current_header.bits,
                                        clamped_adjustment[2]),
                              clamped_adjustment[1])
         IN  WorkOk(WideMin(new_target, Wide(0, MAX_TARGET)))

\* current_header.timestamp - prev_headers[0].timestamp is a u64
\* subtraction: below zero it panics in a build with overflow checks and
\* wraps to 2^64 - d in one without, which is far above 4 * expected_time
get_next_work_required(current_header, prev_headers, overflow_checks) ==
    IF Len(prev_headers) < 2 THEN WorkErr
    ELSE IF current_header.timestamp < prev_headers[1].timestamp
              /\ overflow_checks
      THEN WorkPanic
    ELSE LET expected_time ==
                 DIFFICULTY_ADJUSTMENT_INTERVAL * TARGET_TIME_PER_BLOCK
             clamped_adjustment ==
                 IF current_header.timestamp < prev_headers[1].timestamp
                   THEN <<4, 1>>
                   ELSE ClampedAdjustment(current_header.timestamp
                                            - prev_headers[1].timestamp,
                                          expected_time)
             new_target ==
                 WideDivSmall(WideTimes(current_header.bits,
                                        clamped_adjustment[2]),
                              clamped_adjustment[1])
         IN  WorkOk(WideMin(new_target, Wide(0, MAX_TARGET)))

WorkHeader(t, b) ==
    [version |-> 1, prev_block_hash |-> ZeroHash, merkle_root |-> ZeroHash,
     timestamp |-> t, bits |-> b, nonce |-> 0]

\* timestamp of the first prior header
WorkStart == 1000000

\* elapsed times, in units of expected_time / 8: none, a quarter, a half,
\* three quarters, one, one and a half, two, four, and beyond four; -1 is a
\* current header older than the first prior one
WorkEighths == {-1, 0, 2, 4, 6, 8, 12, 16, 32, 33, 64}

\* 1, 0x1c00ffff, MAX_TARGET - 1, MAX_TARGET, MAX_TARGET + 1, 0x1e00ffff
\* and 0x1_1d00ffff
WorkBits ==
    {Wide(0, 1), Wide(0, 469827583), Wide(0, MAX_TARGET - 1),
     Wide(0, MAX_TARGET), Wide(0, MAX_TARGET + 1), Wide(0, 503382015),
     WideBits}

\* n prior headers spaced TARGET_TIME_PER_BLOCK apart from WorkStart on
SpacedHeaders(n, b) ==
    [i \in 1..n |-> WorkHeader(WorkStart + (i - 1) * TARGET_TIME_PER_BLOCK, b)]

\* none, one, two, three, and a full interval of prior headers
WorkLens == {0, 1, 2, 3, DIFFICULTY_ADJUSTMENT_INTERVAL}

GetNextWorkRequiredCall ==
    /\ fn = "none"
    /\ \E b \in WorkBits, same \in BOOLEAN, e \in WorkEighths, n \in WorkLens,
          overflow_checks \in BOOLEAN :
          LET expected_time ==
                  DIFFICULTY_ADJUSTMENT_INTERVAL * TARGET_TIME_PER_BLOCK
              current_header ==
                  WorkHeader(WorkStart + e * (expected_time \div 8), b)
              prev_headers ==
                  SpacedHeaders(n, IF same THEN b ELSE Wide(0, MAX_TARGET))
          IN  /\ arg' = [current_header |-> current_header,
                         prev_headers |-> prev_headers,
                         overflow_checks |-> overflow_checks]
              /\ out' = get_next_work_required(current_header, prev_headers,
                                               overflow_checks)
    /\ fn' = "get_next_work_required"
    /\ UNCHANGED <<script_vars, block_vars>>

NextWork == GetNextWorkRequiredCall \/ CallReturn

SpecWork == Init /\ [][NextWork]_vars

(***************************************************************************)
(* total_supply and validate_supply_limit (src/src/economic.rs:36-80).     *)
(* The loop of total_supply adds get_block_subsidy(h) for every h of       *)
(* 0..=height. The subsidy is the same for all heights of a halving        *)
(* period, so the additions of a period are taken together as one product, *)
(* and the periods are added up by halves of the range; the total stays    *)
(* far below 2^63, so the order of the additions does not matter.          *)
(***************************************************************************)
\* the additions for the heights of halving period p that are at most h
PeriodSum(p, h) ==
    LET lo == p * HALVING_INTERVAL
        hi == IF h < lo + HALVING_INTERVAL - 1 THEN h
              ELSE lo + HALVING_INTERVAL - 1
    IN  WideTimes(get_block_subsidy(lo), hi - lo + 1)

\* the additions of the periods plo..phi
RECURSIVE SupplyLoop(_, _, _)
SupplyLoop(plo, phi, h) ==
    IF plo = phi THEN PeriodSum(plo, h)
    ELSE Bind(SupplyLoop(plo, (plo + phi) \div 2, h),
              LAMBDA left :
                WideAdd(left, SupplyLoop((plo + phi) \div 2 + 1, phi, h)))

\* the number of blocks times the subsidy of the last one
total_supply_BlockCount(h) == WideTimes(get_block_subsidy(h), h + 1)

total_supply(h) == SupplyLoop(0, h \div HALVING_INTERVAL, h)

\* Ok(current_supply <= MAX_MONEY)
validate_supply_limit(h) ==
    LET current_supply == total_supply(h)
    IN  ~WideLt(MAX_MONEY, current_supply)

\* the heights around every halving up to the 66th, and around the 100th
EconHeights ==
    {h \in {k * HALVING_INTERVAL + d : k \in (0..66) \cup {100},
                                        d \in {-1, 0, 1}} : h >= 0}

GetBlockSubsidyCall ==
    /\ fn = "none"
    /\ \E h \in EconHeights :
          /\ arg' = h
          /\ out' = get_block_subsidy(h)
    /\ fn' = "get_block_subsidy"
    /\ UNCHANGED <<script_vars, block_vars>>

TotalSupplyCall ==
    /\ fn = "none"
    /\ \E h \in EconHeights :
          /\ arg' = h
          /\ out' = total_supply(h)
    /\ fn' = "total_supply"
    /\ UNCHANGED <<script_vars, block_vars>>

ValidateSupplyLimitCall ==
    /\ fn = "none"
    /\ \E h \in EconHeights :
          /\ arg' = h
          /\ out' = validate_supply_limit(h)
    /\ fn' = "validate_supply_limit"
    /\ UNCHANGED <<script_vars, block_vars>>

NextEcon ==
    \/ GetBlockSubsidyCall
    \/ TotalSupplyCall
    \/ ValidateSupplyLimitCall
    \/ CallReturn

SpecEcon == Init /\ [][NextEcon]_vars

(***************************************************************************)
(* connect_block (src/src/block.rs:23-97), step by step. The caller owns   *)
(* the chain tip: it passes the tip's set in, adopts the set handed back   *)
(* on Valid and keeps its own copy otherwise.                              *)
(***************************************************************************)
\* the call returns with verdict v (and reason r)
Finish(v, r) ==
    /\ pc' = "done"
    /\ result' = v
    /\ reason' = r

ConnectBlockCall ==
    /\ pc = "idle"
    /\ calls < MaxCalls
    /\ \E c \in CallInputs :
          /\ block' = [header |-> c[2], transactions |-> c[1]]
          /\ height' = c[3]
    /\ utxo_in' = utxo_set
    /\ pc' = "header"
    /\ idx' = 1
    /\ total_fees' = WideZero
    /\ result' = "none"
    /\ reason' = ""
    /\ UNCHANGED <<utxo_set, calls, script_vars, call_vars>>

\* 1. validate the block header
ValidateHeader ==
    /\ pc = "header"
    /\ IF validate_block_header(block.header)
       THEN /\ pc' = "loop"
            /\ UNCHANGED <<result, reason>>
       ELSE Finish("Invalid", "Invalid block header")
    /\ UNCHANGED <<block, height, utxo_set, utxo_in, idx, total_fees, calls,
                   script_vars, call_vars>>

\* CheckTx applying each transaction as soon as it has passed its checks
CheckTx_Eager ==
    /\ pc = "loop"
    /\ idx <= Len(block.transactions)
    /\ LET r == check_block_tx(Txs[idx], utxo_set, height)
       IN  IF r.outcome = "ok"
           THEN /\ total_fees' = WideAdd(total_fees, r.fee)
                /\ idx' = idx + 1
                /\ utxo_set' = apply_transaction(Txs[idx], utxo_set, height)
                /\ UNCHANGED <<pc, result, reason>>
           ELSE /\ Finish(r.outcome, r.reason)
                /\ UNCHANGED <<total_fees, idx, utxo_set>>
    /\ UNCHANGED <<block, height, utxo_in, calls, script_vars, call_vars>>

\* 2. one iteration of the loop over block.transactions
CheckTx ==
    /\ pc = "loop"
    /\ idx <= Len(block.transactions)
    /\ LET r == check_block_tx(Txs[idx], utxo_set, height)
       IN  IF r.outcome = "ok"
           THEN /\ total_fees' = WideAdd(total_fees, r.fee)
                /\ idx' = idx + 1
                /\ UNCHANGED <<pc, result, reason>>
           ELSE /\ Finish(r.outcome, r.reason)
                /\ UNCHANGED <<total_fees, idx>>
    /\ UNCHANGED <<block, height, utxo_set, utxo_in, calls, script_vars, call_vars>>

\* CheckCoinbase inserting the coinbase outputs before it tests the payout
CheckCoinbase_InsertsFirst ==
    /\ pc = "loop"
    /\ idx > Len(block.transactions)
    /\ IF block.transactions = <<>>
       THEN /\ Finish("Invalid", "Block must have at least one transaction")
            /\ UNCHANGED <<idx, utxo_set>>
       ELSE /\ utxo_set' = apply_transaction(Txs[1], utxo_set, height)
            /\ LET why == check_coinbase(Txs[1], total_fees, height)
               IN  IF why = ""
                   THEN /\ pc' = "apply"
                        /\ idx' = 1
                        /\ UNCHANGED <<result, reason>>
                   ELSE /\ Finish("Invalid", why)
                        /\ UNCHANGED idx
    /\ UNCHANGED <<block, height, utxo_in, total_fees, calls, script_vars, call_vars>>

\* 3. the loop is exhausted: validate the coinbase transaction
CheckCoinbase ==
    /\ pc = "loop"
    /\ idx > Len(block.transactions)
    /\ IF block.transactions = <<>>
       THEN /\ Finish("Invalid", "Block must have at least one transaction")
            /\ UNCHANGED idx
       ELSE LET why == check_coinbase(Txs[1], total_fees, height)
            IN  IF why = ""
                THEN /\ pc' = "apply"
                     /\ idx' = 1
                     /\ UNCHANGED <<result, reason>>
                ELSE /\ Finish("Invalid", why)
                     /\ UNCHANGED idx
    /\ UNCHANGED <<block, height, utxo_set, utxo_in, total_fees, calls,
                   script_vars, call_vars>>

\* 4. one iteration of the loop applying the transactions
ApplyTx ==
    /\ pc = "apply"
    /\ idx <= Len(block.transactions)
    /\ utxo_set' = apply_transaction(Txs[idx], utxo_set, height)
    /\ idx' = idx + 1
    /\ IF idx = Len(block.transactions)
       THEN Finish("Valid", "")
       ELSE UNCHANGED <<pc, result, reason>>
    /\ UNCHANGED <<block, height, utxo_in, total_fees, calls, script_vars, call_vars>>

\* the call has returned; the caller takes the outcome
ConnectBlockReturn ==
    /\ pc = "done"
    /\ utxo_set' = IF result = "Valid" THEN utxo_set ELSE utxo_in
    /\ utxo_in' = utxo_set'
    /\ calls' = calls + 1
    /\ pc' = "idle"
    /\ block' = NoBlock
    /\ height' = 0
    /\ idx' = 1
    /\ total_fees' = WideZero
    /\ result' = "none"
    /\ reason' = ""
    /\ UNCHANGED <<script_vars, call_vars>>

\* a caller that validates coinbase-only candidates against an empty set
GenesisCall ==
    /\ pc = "idle"
    /\ \E c \in GenesisInputs :
          /\ block' = [header |-> c[2], transactions |-> c[1]]
          /\ height' = c[3]
    /\ utxo_in' = utxo_set
    /\ pc' = "header"
    /\ idx' = 1
    /\ total_fees' = WideZero
    /\ result' = "none"
    /\ reason' = ""
    /\ UNCHANGED <<utxo_set, calls, script_vars, call_vars>>

\* that caller discards the outcome and starts again from the empty set
GenesisReturn ==
    /\ pc = "done"
    /\ utxo_set' = EmptyUtxoSet
    /\ utxo_in' = EmptyUtxoSet
    /\ pc' = "idle"
    /\ block' = NoBlock
    /\ height' = 0
    /\ idx' = 1
    /\ total_fees' = WideZero
    /\ result' = "none"
    /\ reason' = ""
    /\ UNCHANGED <<calls, script_vars, call_vars>>

\* a caller that validates candidates against FundedSet
SpendCall ==
    /\ pc = "idle"
    /\ \E c \in SpendInputs :
          /\ block' = [header |-> c[2], transactions |-> c[1]]
          /\ height' = c[3]
    /\ utxo_set' = FundedSet
    /\ utxo_in' = FundedSet
    /\ pc' = "header"
    /\ idx' = 1
    /\ total_fees' = WideZero
    /\ result' = "none"
    /\ reason' = ""
    /\ UNCHANGED <<calls, script_vars, call_vars>>

Next ==
    \/ ConnectBlockCall
    \/ ValidateHeader
    \/ CheckTx
    \/ CheckCoinbase
    \/ ApplyTx
    \/ ConnectBlockReturn

Spec == Init /\ [][Next]_vars

NextGenesis ==
    \/ GenesisCall
    \/ ValidateHeader
    \/ CheckTx
    \/ CheckCoinbase
    \/ ApplyTx
    \/ GenesisReturn

SpecGenesis == Init /\ [][NextGenesis]_vars

\* that caller, too, discards the outcome
NextSpend ==
    \/ SpendCall
    \/ ValidateHeader
    \/ CheckTx
    \/ CheckCoinbase
    \/ ApplyTx
    \/ GenesisReturn

SpecSpend == Init /\ [][NextSpend]_vars

(***************************************************************************)
(* Reorganization (src/src/reorganization.rs). disconnect_block removes    *)
(* the outputs the block's transactions created, under the ids its own     *)
(* calculate_tx_id (159-166, the same four bytes as block.rs:165-174)      *)
(* gives them; its loop over the inputs has an empty body.                 *)
(***************************************************************************)
disconnect_block(txs, us) ==
    LET removed == UNION {NewOutPoints(txs[i]) : i \in 1..Len(txs)}
    IN  [op \in DOMAIN us \ removed |-> us[op]]

\* the block that was just connected with a Valid result is disconnected
DisconnectBlock ==
    /\ pc = "done"
    /\ result = "Valid"
    /\ utxo_set' = disconnect_block(Txs, utxo_set)
    /\ pc' = "disconnected"
    /\ UNCHANGED <<block, height, utxo_in, idx, total_fees, result, reason,
                   calls, script_vars, call_vars>>

\* the caller has taken the set and starts again
DisconnectReturn ==
    /\ pc = "disconnected"
    /\ utxo_set' = EmptyUtxoSet
    /\ utxo_in' = EmptyUtxoSet
    /\ pc' = "idle"
    /\ block' = NoBlock
    /\ height' = 0
    /\ idx' = 1
    /\ total_fees' = WideZero
    /\ result' = "none"
    /\ reason' = ""
    /\ UNCHANGED <<calls, script_vars, call_vars>>

\* a caller that connects candidates to FundedSet and disconnects the Valid
\* ones again
NextReorg ==
    \/ SpendCall
    \/ ValidateHeader
    \/ CheckTx
    \/ CheckCoinbase
    \/ ApplyTx
    \/ GenesisReturn
    \/ DisconnectBlock
    \/ DisconnectReturn

SpecReorg == Init /\ [][NextReorg]_vars

(***************************************************************************)
(* Vocabulary of the properties of connect_block. All of it is evaluated   *)
(* on the arguments of the call in progress: block, utxo_in, height.       *)
(***************************************************************************)
HeaderSound == block.header.version >= 1 /\ block.header.bits # 0

Returned == pc = "done"

HardError == result \notin {"none", "Valid", "Invalid"}

\* the outcome of step 2 for the i-th transaction against the set passed in
TxOutcome(i) == check_block_tx(Txs[i], utxo_in, height).outcome

\* the fees of the block's transactions, by check_tx_inputs on the set passed in
BlockFees ==
    SumValues([i \in 1..Len(Txs) |->
                 [value |-> check_tx_inputs(Txs[i], utxo_in, height).fee]],
              0, Len(Txs))

\* the first transaction pays out more than fees plus subsidy
CoinbaseOverpays ==
    /\ block.transactions # <<>>
    /\ WideGt(SumOutputs(Txs[1].outputs),
              WideAdd(BlockFees, get_block_subsidy(height)))

\* some input of a non-coinbase transaction before position n raises a hard
\* error in script verification
ScriptErrorBefore(n) ==
    \E i \in 1..(n - 1) : i <= Len(Txs) /\ TxOutcome(i) = "ScriptExecution"

\* positions of the transactions with an input absent from the set passed in
AbsentInputAt ==
    {i \in 1..Len(Txs) :
        /\ ~is_coinbase(Txs[i])
        /\ \E j \in 1..Len(Txs[i].inputs) :
              Txs[i].inputs[j].prevout \notin DOMAIN utxo_in}

(***************************************************************************)
(* C1: whenever connect_block returns Invalid, the UTXO set it hands back  *)
(* is identical, entry for entry, to the set that was passed in.           *)
(***************************************************************************)
C1_InvalidHandsBackSameSet ==
    (Returned /\ result = "Invalid") => utxo_set = utxo_in

\* an Invalid verdict from the coinbase test, after the whole loop has run
\* over a block of two transactions against a non-empty set
C1_Witness ==
    /\ Returned /\ result = "Invalid"
    /\ reason = "Coinbase output exceeds fees + subsidy"
    /\ Len(block.transactions) = 2
    /\ utxo_in # EmptyUtxoSet

(***************************************************************************)
(* C2: connect_block inserts into and removes from the UTXO set only after *)
(* the header, every transaction (check_transaction, check_tx_inputs,      *)
(* script verification) and the coinbase have passed; so while it checks,  *)
(* and when it ends in a hard error, the set is the one passed in.         *)
(***************************************************************************)
AllChecksPassed ==
    /\ HeaderSound
    /\ block.transactions # <<>>
    /\ \A i \in 1..Len(Txs) : TxOutcome(i) = "ok"
    /\ check_coinbase(Txs[1], BlockFees, height) = ""

C2_NoMutationBeforeChecksPass ==
    /\ pc \in {"header", "loop"} => utxo_set = utxo_in
    /\ (Returned /\ HardError) => utxo_set = utxo_in
    /\ (pc = "apply" \/ utxo_set # utxo_in) => AllChecksPassed

\* a hard error raised by the second transaction of a block, after the first
\* one had passed, against a non-empty set
C2_Witness ==
    /\ Returned /\ result = "ScriptExecution"
    /\ idx = 2
    /\ utxo_in # EmptyUtxoSet

FirstNotCoinbase == block.transactions # <<>> /\ ~is_coinbase(Txs[1])

BlockOutputs ==
    {p \in (1..Len(Txs)) \X (1..MAX_OUTPUTS + 1) : p[2] <= Len(Txs[p[1]].outputs)}

\* the key under which the claim files the output p
KeyOf(p) == OutPoint(calculate_tx_id(Txs[p[1]]), Wide(0, p[2] - 1))

\* the entry the claim files for the output p
EntryOf(p) ==
    UTXO(Txs[p[1]].outputs[p[2]].value,
         Txs[p[1]].outputs[p[2]].script_pubkey, height)

\* a block of pairwise different transactions, one coinbase, in first place
WellFormedBlock ==
    /\ block.transactions # <<>>
    /\ \A i, j \in 1..Len(Txs) : i # j => Txs[i] # Txs[j]
    /\ \A i \in 1..Len(Txs) : is_coinbase(Txs[i]) <=> i = 1

\* the OutPoints referenced by the inputs of the block's non-coinbase
\* transactions
SpentByBlock ==
    UNION {{Txs[i].inputs[j].prevout : j \in 1..Len(Txs[i].inputs)} :
             i \in {k \in 1..Len(Txs) : ~is_coinbase(Txs[k])}}

\* the data-model invariants of a transaction's outputs
OutputsInModel(tx) ==
    /\ tx.outputs # <<>>
    /\ \A i \in 1..Len(tx.outputs) :
          /\ ~WideLt(tx.outputs[i].value, WideZero)
          /\ ~WideGt(tx.outputs[i].value, MAX_MONEY)

\* a coinbase-only block with a sound header, paying at most the subsidy,
\* connected to the empty set
CoinbaseOnlyWithinSubsidy ==
    /\ Len(block.transactions) = 1
    /\ is_coinbase(Txs[1])
    /\ HeaderSound
    /\ utxo_in = EmptyUtxoSet
    /\ OutputsInModel(Txs[1])
    /\ ~WideGt(SumOutputs(Txs[1].outputs), get_block_subsidy(height))

\* the set handed back holds exactly one entry per output of the coinbase
OneEntryPerCoinbaseOutput ==
    /\ DOMAIN utxo_set = NewOutPoints(Txs[1])
    /\ Cardinality(DOMAIN utxo_set) = Len(Txs[1].outputs)
    /\ \A p \in {q \in BlockOutputs : q[1] = 1} : utxo_set[KeyOf(p)] = EntryOf(p)

(***************************************************************************)
(* C5 as stated: a coinbase-only block with version >= 1 and bits # 0      *)
(* whose coinbase pays at most get_block_subsidy(height), connected to an  *)
(* empty UTXO set, is Valid, and the set handed back holds exactly one     *)
(* entry per coinbase output. (The coinbase is taken to satisfy the data   *)
(* model: at least one output, every value in [0, MAX_MONEY].)             *)
(***************************************************************************)
C5_Original ==
    (Returned /\ CoinbaseOnlyWithinSubsidy) =>
        result = "Valid" /\ OneEntryPerCoinbaseOutput

(***************************************************************************)
(* C5 amended: such a block is Valid, with exactly one entry per coinbase  *)
(* output, when the coinbase has at most MAX_OUTPUTS outputs. At height 0  *)
(* a coinbase paying 5,000,000,000 in one output leaves one entry of that  *)
(* value.                                                                  *)
(***************************************************************************)
C5_CoinbaseOnlyAccepted ==
    (Returned /\ CoinbaseOnlyWithinSubsidy
              /\ Len(Txs[1].outputs) <= MAX_OUTPUTS) =>
        result = "Valid" /\ OneEntryPerCoinbaseOutput

\* the full subsidy of height 0 in one output: one entry of 5,000,000,000
C5_Witness ==
    /\ Returned /\ CoinbaseOnlyWithinSubsidy
    /\ result = "Valid"
    /\ height = 0
    /\ Cardinality(DOMAIN utxo_set) = 1
    /\ \A op \in DOMAIN utxo_set : utxo_set[op].value = INITIAL_SUBSIDY

(***************************************************************************)
(* C6: after connect_block returns Valid, the set handed back holds a      *)
(* distinct entry for every output of every transaction of the block,      *)
(* keyed by (transaction id, output index) and carrying the output's       *)
(* value, its script_pubkey and the block height. (Stated for blocks of    *)
(* pairwise different transactions with one coinbase; an output spent by   *)
(* a later transaction of the block is not required to remain.)            *)
(***************************************************************************)
C6_EveryOutputHasItsEntry ==
    (Returned /\ result = "Valid" /\ WellFormedBlock) =>
        /\ \A p, q \in BlockOutputs : p # q => KeyOf(p) # KeyOf(q)
        /\ \A p \in BlockOutputs :
              KeyOf(p) \notin SpentByBlock =>
                 /\ KeyOf(p) \in DOMAIN utxo_set
                 /\ utxo_set[KeyOf(p)] = EntryOf(p)

(***************************************************************************)
(* C7: after connect_block returns Valid, every entry of the pre-block set *)
(* that no input of the block references is still present, with the value  *)
(* and the script_pubkey it had. (Stated for blocks of pairwise different  *)
(* transactions with one coinbase.)                                        *)
(***************************************************************************)
C7_UntouchedEntriesSurvive ==
    (Returned /\ result = "Valid" /\ WellFormedBlock) =>
        \A op \in DOMAIN utxo_in \ SpentByBlock :
            /\ op \in DOMAIN utxo_set
            /\ utxo_set[op].value = utxo_in[op].value
            /\ utxo_set[op].script_pubkey = utxo_in[op].script_pubkey

C10_StackLimitIsHardError ==
    (s_pc = "done" /\ op_count > 0 /\ Len(stack) > MAX_STACK_SIZE) =>
        s_result = "ScriptExecution"

(***************************************************************************)
(* Vocabulary of the properties of single opcodes. When eval_script has    *)
(* returned, op_count is the position of the last opcode the loop took up. *)
(***************************************************************************)
\* eval_script has returned from the iteration of an opcode without match arm
UnknownOpcodeReached ==
    /\ s_pc = "done"
    /\ op_count >= 1
    /\ script[op_count] \notin ImplementedOpcodes

MinDepth(op) ==
    CASE op \in {118, 117, 121, 122} -> 1
      [] op \in {124, 120, 119, 125, 109, 110} -> 2
      [] op \in {123, 111} -> 3
      [] op \in {112, 114} -> 4
      [] op = 113 -> 6

\* the loop is about to execute the opcode op: both limits are respected
AboutToExecute(op) ==
    /\ s_pc = "loop"
    /\ op_count < Len(script)
    /\ script[op_count + 1] = op
    /\ op_count < MAX_SCRIPT_OPS
    /\ Len(stack) <= MAX_STACK_SIZE

\* PICK or ROLL with an index operand that is empty or not smaller than the
\* depth that remains once the operand is popped
BadIndexOperand(op) ==
    /\ op \in {121, 122}
    /\ stack # <<>>
    /\ \/ stack[Len(stack)] = <<>>
       \/ stack[Len(stack)][1] >= Len(stack) - 1

(***************************************************************************)
(* C12: DUP, DROP, SWAP, OVER, ROT, NIP, TUCK, PICK, ROLL, 2DROP, 2DUP,    *)
(* 3DUP, 2OVER, 2ROT and 2SWAP never raise a hard error: executed on a     *)
(* stack that is too shallow, or (PICK, ROLL) with an index operand that   *)
(* is empty or not smaller than the remaining depth, they make eval_script *)
(* return false.                                                           *)
(***************************************************************************)
C12_StackOpsFailGracefully ==
    [][\A op \in StackOps :
          AboutToExecute(op) =>
             /\ s_result' # "ScriptExecution"
             /\ (Len(stack) < MinDepth(op) \/ BadIndexOperand(op)) =>
                   (s_pc' = "done" /\ s_result' = "false")]_vars

\* PICK has popped the index operand 3, found three items left, and
\* eval_script has returned false
C12_Witness ==
    /\ s_pc = "done"
    /\ script = <<121>>
    /\ stack = <<<<5>>, <<6>>, <<7>>>>
    /\ s_failed
    /\ s_result = "false"

(***************************************************************************)
(* Vocabulary of the properties of verify_script.                          *)
(***************************************************************************)
\* the stack the stages of verify_script leave when all of them are run, one
\* after the other, on the stack the one before left
StackAfterLastStage(a) ==
    LET s1 == eval_script(a.script_sig, <<>>).stack
        s2 == eval_script(a.script_pubkey, s1).stack
    IN  IF a.witness.some THEN eval_script(a.witness.script, s2).stack ELSE s2

(***************************************************************************)
(* C13: verify_script returns true only if, after the last stage, the      *)
(* stack holds exactly one element, and that element is non-empty with a   *)
(* non-zero first byte; two or more remaining elements give false even     *)
(* when all of them are truthy: verify_script([OP_1], [OP_1]) is false.    *)
(***************************************************************************)
C13_ExactlyOneTruthyElement ==
    fn = "verify_script" =>
        /\ out = "true" =>
              /\ Len(StackAfterLastStage(arg)) = 1
              /\ Truthy(StackAfterLastStage(arg)[1])
        /\ Len(StackAfterLastStage(arg)) >= 2 => out # "true"
        /\ (arg.script_sig = <<81>> /\ arg.script_pubkey = <<81>>
                                    /\ ~arg.witness.some) => out = "false"

\* verify_script([OP_1], [OP_1]): two truthy elements remain, the result is
\* false
C13_Witness ==
    /\ fn = "verify_script"
    /\ arg.script_sig = <<81>> /\ arg.script_pubkey = <<81>>
    /\ ~arg.witness.some
    /\ StackAfterLastStage(arg) = <<<<1>>, <<1>>>>
    /\ out = "false"

(***************************************************************************)
(* Vocabulary of the properties of check_transaction. The serialized size  *)
(* is the length of the byte string calculate_tx_hash builds               *)
(* (src/src/mining.rs:225-262).                                            *)
(***************************************************************************)
\* the length of encode_varint(v)
VarintLen(v) == IF v < 253 THEN 1 ELSE IF v <= 65535 THEN 3 ELSE 5

\* the bytes the scripts of items[lo+1 .. hi] take, length prefix included
\* (halved to stay shallow)
RECURSIVE ScriptBytes(_, _, _)
ScriptBytes(lens, lo, hi) ==
    IF lo >= hi THEN 0
    ELSE IF hi = lo + 1 THEN VarintLen(lens[hi]) + lens[hi]
    ELSE ScriptBytes(lens, lo, (lo + hi) \div 2)
         + ScriptBytes(lens, (lo + hi) \div 2, hi)

SerializedSize(tx) ==
    4 + VarintLen(Len(tx.inputs))
      + 40 * Len(tx.inputs)
      + ScriptBytes([i \in 1..Len(tx.inputs) |-> Len(tx.inputs[i].script_sig)],
                    0, Len(tx.inputs))
      + VarintLen(Len(tx.outputs))
      + 8 * Len(tx.outputs)
      + ScriptBytes([i \in 1..Len(tx.outputs) |->
                        Len(tx.outputs[i].script_pubkey)], 0, Len(tx.outputs))
      + 4

\* the structural conditions on a transaction
StructurallySound(tx) ==
    /\ tx.inputs # <<>>
    /\ tx.outputs # <<>>
    /\ \A i \in 1..Len(tx.outputs) :
          /\ ~WideLt(tx.outputs[i].value, WideZero)
          /\ ~WideGt(tx.outputs[i].value, MAX_MONEY)
    /\ Len(tx.inputs) <= MAX_INPUTS
    /\ Len(tx.outputs) <= MAX_OUTPUTS

(***************************************************************************)
(* C14: for a transaction within the size limit (by its serialized size,   *)
(* or by the size check_transaction computes), check_transaction returns   *)
(* Valid exactly when inputs and outputs are both non-empty, every output  *)
(* value lies in [0, MAX_MONEY], there are at most MAX_INPUTS inputs and   *)
(* at most MAX_OUTPUTS outputs; otherwise it returns Invalid, never a hard *)
(* error.                                                                  *)
(***************************************************************************)
C14_ValidIffStructurallySound ==
    (fn = "check_transaction"
       /\ (SerializedSize(arg) <= MAX_TX_SIZE
             \/ calculate_transaction_size(arg) <= MAX_TX_SIZE)) =>
        /\ out.tag \in {"Valid", "Invalid"}
        /\ out = Valid <=> StructurallySound(arg)

\* Valid at every limit at once: 1000 inputs, 1000 outputs, one of them of
\* MAX_MONEY
C14_Witness ==
    /\ fn = "check_transaction"
    /\ Len(arg.inputs) = MAX_INPUTS
    /\ Len(arg.outputs) = MAX_OUTPUTS
    /\ arg.outputs[MAX_OUTPUTS].value = MAX_MONEY
    /\ SerializedSize(arg) <= MAX_TX_SIZE
    /\ out = Valid

(***************************************************************************)
(* C15: check_transaction returns Invalid for every transaction whose      *)
(* serialized size (per the transaction byte layout, script bytes          *)
(* included) exceeds MAX_TX_SIZE = 1,000,000 bytes.                        *)
(***************************************************************************)
C15_OversizeIsInvalid ==
    (fn = "check_transaction" /\ SerializedSize(arg) > MAX_TX_SIZE) =>
        out.tag = "Invalid"

(***************************************************************************)
(* Vocabulary of the properties of check_tx_inputs.                        *)
(***************************************************************************)
\* every input of tx refers to an entry of us
AllInputsPresent(tx, us) ==
    \A i \in 1..Len(tx.inputs) : tx.inputs[i].prevout \in DOMAIN us

\* the sum of the values of the entries the inputs refer to, input by input
RECURSIVE ReferencedValue(_, _)
ReferencedValue(ins, us) ==
    IF ins = <<>> THEN WideZero
    ELSE WideAdd(us[Head(ins).prevout].value, ReferencedValue(Tail(ins), us))

\* the sum of the output values
RECURSIVE OutputValue(_)
OutputValue(outs) ==
    IF outs = <<>> THEN WideZero
    ELSE WideAdd(Head(outs).value, OutputValue(Tail(outs)))

(***************************************************************************)
(* C16: for every non-coinbase transaction all of whose inputs are present *)
(* in the UTXO set, check_tx_inputs returns Valid if and only if the sum   *)
(* of the referenced UTXO values is at least the sum of the output values, *)
(* and the fee it returns then equals that difference exactly.             *)
(***************************************************************************)
C16_ValidIffInputsCoverOutputs ==
    (fn = "check_tx_inputs" /\ ~is_coinbase(arg.tx)
                            /\ AllInputsPresent(arg.tx, arg.utxo_set)) =>
        LET sum_in == ReferencedValue(arg.tx.inputs, arg.utxo_set)
            sum_out == OutputValue(arg.tx.outputs)
        IN  /\ out.res = Valid <=> ~WideLt(sum_in, sum_out)
            /\ out.res = Valid => WideAdd(out.fee, sum_out) = sum_in
            /\ out.res.tag \in {"Valid", "Invalid"}

\* two inputs worth MAX_MONEY + 5 against outputs of MAX_MONEY + 5: Valid
\* with a fee of exactly 0
C16_Witness ==
    /\ fn = "check_tx_inputs"
    /\ Len(arg.tx.inputs) = 2
    /\ AllInputsPresent(arg.tx, arg.utxo_set)
    /\ ReferencedValue(arg.tx.inputs, arg.utxo_set) = WideAdd(MAX_MONEY, Wide(0, 5))
    /\ OutputValue(arg.tx.outputs) = WideAdd(MAX_MONEY, Wide(0, 5))
    /\ out.res = Valid
    /\ out.fee = WideZero

BitSet(u) == UNION {{64 * (i - 1) + k : k \in u[i]} : i \in 1..4}

\* A < B for two such numbers
NumLt(A, B) == A # B /\ SetMax((A \ B) \cup (B \ A)) \in B

\* the value for the next exponent, same mantissa
NextExponent(bits) ==
    expand_target(CompactBits(ExponentByte(bits) + 1, Mantissa(bits)))

\* the statement for every mantissa: violated by the mantissa 0
C18_Original ==
    (fn = "expand_target" /\ ExponentByte(arg) \in 3..28)
        => /\ out.kind = "Ok"
           /\ NextExponent(arg).kind = "Ok"
           /\ NumLt(BitSet(out.value), BitSet(NextExponent(arg).value))

C18_StrictlyIncreasingForNonZeroMantissa ==
    (fn = "expand_target" /\ ExponentByte(arg) \in 3..28)
        => /\ out.kind = "Ok"
           /\ NextExponent(arg).kind = "Ok"
           /\ IF Mantissa(arg) = 0
                THEN out.value = U256_zero /\ NextExponent(arg).value = U256_zero
                ELSE NumLt(BitSet(out.value), BitSet(NextExponent(arg).value))

\* exponent 9, mantissa 0xffffff: the value occupies the bits 48..71, across
\* the boundary of words 0 and 1
C18_Witness ==
    /\ fn = "expand_target"
    /\ ExponentByte(arg) = 9
    /\ Mantissa(arg) = 16777215
    /\ out.kind = "Ok"
    /\ BitSet(out.value) = 48..71
    /\ BitSet(NextExponent(arg).value) = 56..79

(***************************************************************************)
(* C19. check_proof_of_work is true exactly when the 32-byte digest of the *)
(* header, read as a 256-bit unsigned integer, is strictly below           *)
(* expand_target(header.bits); a digest equal to the target gives false.   *)
(* The code reads the digest with byte 0 as the LEAST significant byte     *)
(* (little-endian), not as the most significant one.                       *)
(***************************************************************************)
\* the digest as a number (the set of its one bits), byte 0 least significant
LittleEndianValue(bytes) ==
    UNION {{8 * (n - 1) + k : k \in BitsOf(bytes[n], 8)} : n \in 1..32}

\* the digest as a number, byte 0 most significant
BigEndianValue(bytes) ==
    UNION {{8 * (32 - n) + k : k \in BitsOf(bytes[n], 8)} : n \in 1..32}

TargetExpands == expand_target(arg.header.bits).kind = "Ok"

TargetValue == BitSet(expand_target(arg.header.bits).value)

EvenlySpacedInterval ==
    /\ fn = "get_next_work_required"
    /\ Len(arg.prev_headers) = DIFFICULTY_ADJUSTMENT_INTERVAL
    /\ \A i \in 1..Len(arg.prev_headers) :
          /\ arg.prev_headers[i].bits = arg.current_header.bits
          /\ i > 1 => arg.prev_headers[i].timestamp
                        = arg.prev_headers[i - 1].timestamp
                            + TARGET_TIME_PER_BLOCK
    /\ arg.current_header.timestamp - arg.prev_headers[1].timestamp
         = DIFFICULTY_ADJUSTMENT_INTERVAL * TARGET_TIME_PER_BLOCK

\* the statement for every current bits
C23_Original ==
    EvenlySpacedInterval => out = WorkOk(arg.current_header.bits)

C23_RatioOneKeepsBitsUpToMaxTarget ==
    EvenlySpacedInterval
        => IF WideLt(Wide(0, MAX_TARGET), arg.current_header.bits)
             THEN out = WorkOk(Wide(0, MAX_TARGET))
             ELSE out = WorkOk(arg.current_header.bits)

\* the scenario with the bits 0x1c00ffff, handed back as they are
C23_Witness ==
    /\ EvenlySpacedInterval
    /\ arg.current_header.bits = Wide(0, 469827583)
    /\ out = WorkOk(Wide(0, 469827583))

(***************************************************************************)
(* C24. get_block_subsidy(h) is INITIAL_SUBSIDY shifted right by           *)
(* floor(h / HALVING_INTERVAL) while that count is below 64, and 0 from    *)
(* then on; it never grows with h, and at every multiple of                *)
(* HALVING_INTERVAL it is half (rounded down) of what it was one block     *)
(* before.                                                                 *)
(***************************************************************************)
\* x doubled k times
RECURSIVE Doubled(_, _)
Doubled(x, k) == IF k = 0 THEN x ELSE Doubled(WideAdd(x, x), k - 1)

\* s = INITIAL_SUBSIDY >> k, said without a shift: s * 2^k <= INITIAL_SUBSIDY
\* < (s + 1) * 2^k; INITIAL_SUBSIDY is below 2^33
IsShiftedSubsidy(s, k) ==
    IF k >= 33 THEN s = WideZero
    ELSE /\ ~WideLt(INITIAL_SUBSIDY, Doubled(s, k))
         /\ WideLt(INITIAL_SUBSIDY, Doubled(WideAdd(s, Wide(0, 1)), k))

C26_DifferentTransactionsDifferentIds ==
    fn = "calculate_tx_id"
        => \A other \in TxIdInputs :
              other # arg => calculate_tx_id(other) # out


\* ---------------------------------------------------------------------
\* C27: a Valid connect_block never creates value beyond the subsidy: the
\* total value of the entries of the resulting UTXO set is at most the total
\* value of the entries of the set passed in plus get_block_subsidy(height)
\* ---------------------------------------------------------------------

\* the sum of the values of the entries of a UTXO set
RECURSIVE TotalValue(_)
TotalValue(us) ==
    IF DOMAIN us = {} THEN WideZero
    ELSE LET op == CHOOSE o \in DOMAIN us : TRUE
         IN  WideAdd(us[op].value,
                     TotalValue([o \in DOMAIN us \ {op} |-> us[o]]))

C27_ValidBlockCreatesAtMostTheSubsidy ==
    (Returned /\ result = "Valid") =>
        ~WideGt(TotalValue(utxo_set),
                WideAdd(TotalValue(utxo_in), get_block_subsidy(height)))

\* ---------------------------------------------------------------------
\* C28: connect_block never returns Valid for a block in which the same
\* OutPoint is referenced by two inputs, of one transaction or of two
\* ---------------------------------------------------------------------

\* the positions <<transaction, input>> of the inputs of the block
InputPositions ==
    UNION {{<<i, j>> : j \in 1..Len(Txs[i].inputs)} :
             i \in 1..Len(block.transactions)}

OutPointReferencedTwice ==
    \E p, q \in InputPositions :
        /\ p # q
        /\ Txs[p[1]].inputs[p[2]].prevout = Txs[q[1]].inputs[q[2]].prevout

C28_NoValidBlockSpendsAnOutPointTwice ==
    (Returned /\ result = "Valid") => ~OutPointReferencedTwice

\* ---------------------------------------------------------------------
\* C29: connect_block never returns Valid for a block that contains a
\* coinbase transaction at a position other than the first
\* ---------------------------------------------------------------------

CoinbaseAfterFirst ==
    \E i \in 2..Len(block.transactions) : is_coinbase(Txs[i])

C29_NoValidBlockHasALaterCoinbase ==
    (Returned /\ result = "Valid") => ~CoinbaseAfterFirst

\* ---------------------------------------------------------------------
\* C30: connect_block returns Valid only if, for every input of every
\* non-coinbase transaction of the block, verify_script applied to the
\* input's unlocking script and the referenced UTXO's locking script is true
\* ---------------------------------------------------------------------

C30_ValidOnlyIfEveryScriptVerifies ==
    (Returned /\ result = "Valid") =>
        \A i \in 1..Len(block.transactions) :
            ~is_coinbase(Txs[i]) =>
                \A j \in 1..Len(Txs[i].inputs) :
                    /\ Txs[i].inputs[j].prevout \in DOMAIN utxo_in
                    /\ verify_script(Txs[i].inputs[j].script_sig,
                                     utxo_in[Txs[i].inputs[j].prevout].script_pubkey,
                                     NoWitness) = "true"

\* a Valid block whose second transaction spends an entry of the set passed in
C30_Witness ==
    /\ Returned
    /\ result = "Valid"
    /\ Len(block.transactions) >= 2
    /\ ~is_coinbase(Txs[2])
    /\ Txs[2].inputs[1].prevout \in DOMAIN utxo_in

(***************************************************************************)
(* C31: verify_script's verdict depends only on whether some opcode fails  *)
(* and on the stack after the final stage: a scriptSig that leaves zero or *)
(* several elements is still accepted when the scriptPubKey (and the       *)
(* witness, if any) reduce the stack to exactly one truthy element.        *)
(***************************************************************************)
\* the opcodes of one stage run on the stack st, without the test that ends
\* eval_script: kind "cont" when every opcode succeeded
StageOpcodes(sc, st) ==
    eval_loop(sc, [kind |-> "cont", msg |-> "", stack |-> st], 0, Len(sc))

\* the opcodes of the stages of the call a, one stage after the other, each
\* on the stack the one before left, up to the first that does not succeed
AllStageOpcodes(a) ==
    LET r1 == StageOpcodes(a.script_sig, <<>>)
        r2 == IF r1.kind = "cont" THEN StageOpcodes(a.script_pubkey, r1.stack)
              ELSE r1
    IN  IF r2.kind = "cont" /\ a.witness.some
        THEN StageOpcodes(a.witness.script, r2.stack)
        ELSE r2

C31_VerdictFromOpcodesAndFinalStack ==
    fn = "verify_script" =>
        (out = "true" <=>
            /\ AllStageOpcodes(arg).kind = "cont"
            /\ FinalStackCheck(AllStageOpcodes(arg).stack))

(***************************************************************************)
(* C32: one verify_script call executes at most 201 opcodes in total over  *)
(* scriptSig, scriptPubKey and witness together; a call that would execute *)
(* more ends in a hard error.                                              *)
(***************************************************************************)
\* the number of opcodes eval_script executes of the script sc on the stack
\* st: an iteration that ends in an error has not executed its opcode
ExecutedOps(sc, st) ==
    LET kind(k) == StageOpcodes(SubSeq(sc, 1, k), st).kind
        stops == {k \in 1..Len(sc) : kind(k) # "cont"}
    IN  IF stops = {} THEN Len(sc)
        ELSE LET first == CHOOSE k \in stops : \A j \in stops : k <= j
             IN  IF kind(first) = "false" THEN first ELSE first - 1

\* the stages the call a runs, each as <<script, stack it starts on>>
StagesRun(a) ==
    LET r1 == eval_script(a.script_sig, <<>>)
        r2 == eval_script(a.script_pubkey, r1.stack)
    IN  <<<<a.script_sig, <<>>>>>>
        \o (IF r1.result = "true" THEN <<<<a.script_pubkey, r1.stack>>>>
            ELSE <<>>)
        \o (IF r1.result = "true" /\ r2.result = "true" /\ a.witness.some
            THEN <<<<a.witness.script, r2.stack>>>> ELSE <<>>)

RECURSIVE SumExecuted(_)
SumExecuted(stages) ==
    IF stages = <<>> THEN 0
    ELSE ExecutedOps(Head(stages)[1], Head(stages)[2]) + SumExecuted(Tail(stages))

FixedArity(op) ==
    CASE op \in {118, 117, 130, 115} -> 1
      [] op \in {119, 120, 124, 125, 109, 110, 135} -> 2
      [] op \in {123, 111} -> 3
      [] op \in {112, 114} -> 4
      [] op = 113 -> 6

FixedArityOps ==
    {118, 117, 119, 120, 123, 124, 125, 109, 110, 111, 112, 113, 114,
     135, 130, 115}

C33_ShallowStackIsLeftAsItWas ==
    [][\A op \in FixedArityOps :
          (AboutToExecute(op) /\ Len(stack) < FixedArity(op)) =>
             /\ s_pc' = "done"
             /\ s_result' = "false"
             /\ stack' = stack]_vars

\* 2ROT found five items, and eval_script has returned false with the five
\* items in place
C33_Witness ==
    /\ s_pc = "done"
    /\ script = <<113>>
    /\ stack = <<<<5>>, <<6>>, <<7>>, <<8>>, <<9>>>>
    /\ op_count = 1
    /\ s_failed
    /\ s_result = "false"

(***************************************************************************)
(* C34: OP_DEPTH pushes one element whose value equals the number of       *)
(* elements that were on the stack before it executed, for every depth the *)
(* stack can reach (0 to 1000).                                            *)
(***************************************************************************)
\* the number a stack element holds: its bytes, least significant first
RECURSIVE ElementValue(_)
ElementValue(item) ==
    IF item = <<>> THEN 0 ELSE item[1] + 256 * ElementValue(Tail(item))

C34_DepthPushesTheDepth ==
    [][AboutToExecute(116) =>
          /\ Len(stack') = Len(stack) + 1
          /\ SubSeq(stack', 1, Len(stack)) = stack
          /\ ElementValue(stack'[Len(stack')]) = Len(stack)]_vars

(***************************************************************************)
(* C35: the pair-moving opcodes keep the two items of a moved or copied    *)
(* pair in their original relative order: 2OVER, 2SWAP and 2ROT place the  *)
(* deeper item of the pair below the shallower one (for 2ROT, x1 x2 x3 x4  *)
(* x5 x6 becomes x3 x4 x5 x6 x1 x2).                                       *)
(***************************************************************************)
C35_PairsKeepTheirOrder ==
    [][LET n == Len(stack) IN
       /\ (AboutToExecute(112) /\ n >= 4) =>
              stack' = stack \o <<stack[n - 3], stack[n - 2]>>
       /\ (AboutToExecute(114) /\ n >= 4) =>
              stack' = SubSeq(stack, 1, n - 4)
                       \o <<stack[n - 1], stack[n], stack[n - 3], stack[n - 2]>>
       /\ (AboutToExecute(113) /\ n >= 6) =>
              stack' = SubSeq(stack, 1, n - 6) \o SubSeq(stack, n - 3, n)
                       \o <<stack[n - 5], stack[n - 4]>>]_vars

(***************************************************************************)
(* C36: with ratio = elapsed / (2016 x 600) clamped to [0.25, 4.0],        *)
(* get_next_work_required returns current_bits / ratio rounded to the      *)
(* nearest integer, before the minimum-difficulty clamp is applied.        *)
(***************************************************************************)
\* a call that reaches the division with an elapsed time that is not negative
WorkDivides ==
    /\ fn = "get_next_work_required"
    /\ Len(arg.prev_headers) >= 2
    /\ arg.current_header.timestamp >= arg.prev_headers[1].timestamp

\* the clamped ratio of the call, as <<numerator, denominator>>
WorkRatio ==
    ClampedAdjustment(arg.current_header.timestamp
                        - arg.prev_headers[1].timestamp,
                      DIFFICULTY_ADJUSTMENT_INTERVAL * TARGET_TIME_PER_BLOCK)

\* a <= b
WideLe(a, b) == ~WideLt(b, a)

\* current_bits / ratio is at least MAX_TARGET: the clamp decides the result
ClampDecides ==
    WideLe(WideTimes(Wide(0, MAX_TARGET), WorkRatio[1]),
           WideTimes(arg.current_header.bits, WorkRatio[2]))

C37_EarlierTimestampIsClampedToAQuarter ==
    (/\ fn = "get_next_work_required"
     /\ Len(arg.prev_headers) >= 2
     /\ arg.current_header.timestamp < arg.prev_headers[1].timestamp)
        => out = WorkOk(WideMin(WideTimes(arg.current_header.bits, 4),
                                Wide(0, MAX_TARGET)))

(***************************************************************************)
(* C38: the 256-bit integer's shifts are arithmetically correct for every  *)
(* shift amount 0 <= n < 256, including amounts that are not multiples of  *)
(* 64: shl(n) yields x * 2^n mod 2^256 and shr(n) yields floor(x / 2^n),   *)
(* so shr(shl(x, n), n) = x whenever no bits are shifted out.              *)
(***************************************************************************)
\* x * 2^n mod 2^256 and floor(x / 2^n), on the one bits of x
TimesPow2(X, n) == {b + n : b \in {c \in X : c + n < 256}}
OverPow2(X, n) == {b - n : b \in {c \in X : c >= n}}

C38_ShiftsAreArithmetic ==
    /\ (fn = "U256_shl" /\ arg.shift < 256) =>
          /\ BitSet(out) = TimesPow2(BitSet(arg.self), arg.shift)
          /\ (\A b \in BitSet(arg.self) : b + arg.shift < 256) =>
                U256_shr(out, arg.shift) = arg.self
    /\ (fn = "U256_shr" /\ arg.shift < 256) =>
          BitSet(out) = OverPow2(BitSet(arg.self), arg.shift)

(***************************************************************************)
(* C39: disconnect_block is the reverse of connect_block: disconnecting a  *)
(* block that was just connected with a Valid result yields the UTXO set   *)
(* exactly as it was before that block was connected.                      *)
(***************************************************************************)
C39_DisconnectRestoresTheSet ==
    pc = "disconnected" => utxo_set = utxo_in

=============================================================================
